---- MODULE Spec2Model ----
(***************************************************************************)
(* Rest-of-season simulator and scenario overlays of fantasy_nfl.          *)
(*                                                                         *)
(* The model follows src/src/fantasy_nfl/simulator.py (RestOfSeasonSimu-   *)
(* lator) and src/src/fantasy_nfl/overlays.py (OverlayStore).  The files   *)
(* under data_root are the variable disk; one build_dataset call is run    *)
(* as a sequence of steps over its call frame loc, so that the simulator's *)
(* fields _active_overlay and _active_scenario_id are visible while the    *)
(* call is in progress and after it has returned or raised.                *)
(*                                                                         *)
(* Conventions.  Python dicts are functions, read through Has/Get.  None   *)
(* for an optional string is the string NoneStr, None for an optional week *)
(* number is 0 (both falsy, as in `x or default`).  Points are integers,   *)
(* so round(x, 2) is exact; wins, losses and probabilities are fixed-point *)
(* numbers in units of 1/Scale.                                            *)
(***************************************************************************)
EXTENDS Integers, Sequences, FiniteSets, TLC

VARIABLES
    disk,                 \* the files under data_root
    active_overlay,       \* RestOfSeasonSimulator._active_overlay
    active_scenario_id,   \* RestOfSeasonSimulator._active_scenario_id
    args,                 \* arguments of the call in progress / last call
    saved,                \* previous_overlay, previous_scenario_id
    loc,                  \* the call's frame: its position pc and its locals
    outcome               \* what the last call returned or raised

vars == <<disk, active_overlay, active_scenario_id, args, saved, loc, outcome>>

----------------------------------------------------------------------------
(* Python helpers *)

NoneStr == "<None>"

Has(d, k) == k \in DOMAIN d

Get(d, k, default) == IF k \in DOMAIN d THEN d[k] ELSE default

EmptyDict == <<>>

Falsy(s) == s = NoneStr \/ s = ""

Upper(s) ==
    CASE s = "home" -> "HOME"
      [] s = "away" -> "AWAY"
      [] s = "tie" -> "TIE"
      [] s = "undecided" -> "UNDECIDED"
      [] OTHER -> s

Min(S) == CHOOSE m \in S : \A n \in S : m <= n

Max(S) == CHOOSE m \in S : \A n \in S : m >= n

Abs(n) == IF n < 0 THEN 0 - n ELSE n

RECURSIVE SumSeq(_)
SumSeq(s) == IF s = <<>> THEN 0 ELSE Head(s) + SumSeq(Tail(s))

RECURSIVE SetToSortedSeq(_)
SetToSortedSeq(S) ==
    IF S = {} THEN <<>> ELSE <<Min(S)>> \o SetToSortedSeq(S \ {Min(S)})

RECURSIVE Flatten(_)
Flatten(ss) == IF ss = <<>> THEN <<>> ELSE Head(ss) \o Flatten(Tail(ss))

\* list.sort(key=..., reverse=True) on a list given as <<key, item>> pairs:
\* stable, descending in the key
RECURSIVE InsertDesc(_, _)
InsertDesc(sorted, p) ==
    IF sorted = <<>> THEN <<p>>
    ELSE IF Head(sorted)[1] >= p[1]
         THEN <<Head(sorted)>> \o InsertDesc(Tail(sorted), p)
         ELSE <<p>> \o sorted

RECURSIVE SortPairsDesc(_)
SortPairsDesc(ps) ==
    IF ps = <<>> THEN <<>>
    ELSE InsertDesc(SortPairsDesc(SubSeq(ps, 1, Len(ps) - 1)), ps[Len(ps)])

\* list.sort(key=...): stable, ascending in the key
RECURSIVE InsertAsc(_, _)
InsertAsc(sorted, p) ==
    IF sorted = <<>> THEN <<p>>
    ELSE IF Head(sorted)[1] <= p[1]
         THEN <<Head(sorted)>> \o InsertAsc(Tail(sorted), p)
         ELSE <<p>> \o sorted

RECURSIVE SortPairsAsc(_)
SortPairsAsc(ps) ==
    IF ps = <<>> THEN <<>>
    ELSE InsertAsc(SortPairsAsc(SubSeq(ps, 1, Len(ps) - 1)), ps[Len(ps)])

Items(ps) == [i \in 1..Len(ps) |-> ps[i][2]]

----------------------------------------------------------------------------
(* overlays.py *)

BASELINE_SCENARIO_ID == "baseline"

\* ScenarioOverlay.empty(season, scenario_id)
empty(scenario_id) ==
    [metadata |-> [scenario_id |-> scenario_id, label |-> "Baseline"],
     completed_weeks |-> EmptyDict,
     projection_weeks |-> EmptyDict]

\* TeamLineupOverride.normalized_entries: one table row per raw entry
normalized_entry(team_id, raw, value_key) ==
    LET other_key == IF value_key = "score_total" THEN "projected_points"
                     ELSE "score_total"
        value == IF Has(raw, value_key) THEN raw[value_key]
                 ELSE IF Has(raw, "points") THEN raw["points"]
                 ELSE IF Has(raw, other_key) THEN raw[other_key]
                 ELSE 0
    IN  (value_key :> value) @@
        [team_id |-> team_id,
         player_name |-> Get(raw, "player_name", ""),
         counts_for_score |-> Get(raw, "counts_for_score", TRUE)]

normalized_entries(team_id, entries, value_key) ==
    [i \in 1..Len(entries) |-> normalized_entry(team_id, entries[i], value_key)]

\* CompletedWeekOverride.as_rows / ProjectionWeekOverride.as_rows: the
\* lineups in the order of the overlay document (ascending team id here)
as_rows(team_lineups, value_key) ==
    LET order == SetToSortedSeq(DOMAIN team_lineups)
    IN  Flatten([i \in 1..Len(order) |->
                   normalized_entries(order[i], team_lineups[order[i]], value_key)])

\* the "matchups" part of CompletedWeekOverride.from_dict
normalize_matchup(payload) ==
    LET kept == {k \in DOMAIN payload :
                   \/ k \in {"home_team_id", "away_team_id",
                             "home_points", "away_points"}
                   \/ k = "winner" /\ payload[k] # ""}
    IN  [k \in kept |-> IF k = "winner" THEN Upper(payload[k]) ELSE payload[k]]

CompletedWeekOverride_from_dict(payload) ==
    LET teams_payload == Get(payload, "teams", EmptyDict)
        matchups_payload == Get(payload, "matchups", EmptyDict)
    IN  [team_lineups |-> teams_payload,
         matchup_overrides |->
            [m \in DOMAIN matchups_payload |->
               normalize_matchup(matchups_payload[m])]]

ProjectionWeekOverride_from_dict(payload) ==
    [team_lineups |-> Get(payload, "teams", EmptyDict)]

\* OverlayStore.load_overlay, the part after the file was read: metadata and
\* the two override maps of the JSON object raw
parse_overlay(raw, scenario_id) ==
    LET completed_payload == Get(raw, "completed_weeks", EmptyDict)
        projection_payload == Get(raw, "projection_weeks", EmptyDict)
    IN  [metadata |-> [scenario_id |-> Get(raw, "scenario_id", scenario_id),
                       label |-> Get(raw, "label", NoneStr)],
         completed_weeks |->
            [w \in DOMAIN completed_payload |->
               CompletedWeekOverride_from_dict(completed_payload[w])],
         projection_weeks |->
            [w \in DOMAIN projection_payload |->
               ProjectionWeekOverride_from_dict(projection_payload[w])]]

\* load_overlay once the id is known not to be the reserved one.  files maps
\* a scenario id to its file <season_dir>/<id>.json: missing, not JSON
\* ("invalid"), JSON that is no object ("nonobject"), or an object (raw).
\* A file that is not JSON leaves `raw` unbound (the except branch only
\* breaks out of the loop), so the next statement raises UnboundLocalError;
\* on a non-object the `in` test, the item assignment or .get raises
\* TypeError or AttributeError.
load_overlay_file(files, scenario_id) ==
    IF \A f \in DOMAIN files : files[f].kind = "missing"
    THEN [raised |-> FALSE, overlay |-> empty(scenario_id)]
    ELSE LET file == files[scenario_id] IN
         CASE file.kind = "missing" ->
                [raised |-> FALSE, overlay |-> empty(scenario_id)]
           [] file.kind = "invalid" ->
                [raised |-> TRUE, error |-> "UnboundLocalError"]
           [] file.kind = "nonobject" ->
                [raised |-> TRUE, error |-> "TypeError"]
           [] OTHER ->
                [raised |-> FALSE, overlay |-> parse_overlay(file.raw, scenario_id)]

\* load_overlay without its first test: the reserved id is read from disk
load_overlay_reads_baseline_file(files, scenario_id) ==
    load_overlay_file(files, IF Falsy(scenario_id) THEN BASELINE_SCENARIO_ID
                             ELSE scenario_id)

\* OverlayStore.load_overlay(season, scenario_id)
load_overlay(files, scenario_id) ==
    IF Falsy(scenario_id) \/ scenario_id = BASELINE_SCENARIO_ID
    THEN [raised |-> FALSE,
          overlay |-> empty(IF Falsy(scenario_id) THEN BASELINE_SCENARIO_ID
                            ELSE scenario_id)]
    ELSE load_overlay_file(files, scenario_id)

----------------------------------------------------------------------------
(* simulator.py: tables and overlay merges *)

\* self._active_overlay = None
NoOverlay == [none |-> TRUE]

IsNone(ov) == Has(ov, "none")

RowsOfTeam(df, team_id) == SelectSeq(df, LAMBDA r : r.team_id = team_id)

TeamIdsOf(df) == {df[i].team_id : i \in 1..Len(df)}

\* the last lines of both merges, mutated: the override rows are appended
\* and the overridden teams' base rows are kept
merge_keeps_base_rows(df, override_df) == df \o override_df

\* _apply_completed_week_overrides / _apply_projection_overrides, from
\* `if df.empty` on: the base rows of every team of override_df are dropped
\* and override_df is appended
merge_override_rows(df, override_df) ==
    IF df = <<>> THEN override_df
    ELSE LET team_ids == TeamIdsOf(override_df)
         IN  SelectSeq(df, LAMBDA r : r.team_id \notin team_ids) \o override_df

\* RestOfSeasonSimulator._apply_completed_week_overrides(df, week).  The rows
\* of as_rows always carry score_total and counts_for_score, so the column
\* defaults of the loop over base_columns never apply to them.
apply_completed_week_overrides(ov, df, week) ==
    IF IsNone(ov) THEN df
    ELSE IF ~Has(ov.completed_weeks, week) THEN df
    ELSE LET rows == as_rows(ov.completed_weeks[week].team_lineups, "score_total")
         IN  IF rows = <<>> THEN df ELSE merge_override_rows(df, rows)

\* RestOfSeasonSimulator._apply_projection_overrides(df, week)
apply_projection_overrides(ov, df, week) ==
    IF IsNone(ov) THEN df
    ELSE IF ~Has(ov.projection_weeks, week) THEN df
    ELSE LET rows == as_rows(ov.projection_weeks[week].team_lineups,
                             "projected_points")
         IN  IF rows = <<>> THEN df ELSE merge_override_rows(df, rows)

\* the base table of a completed week: weekly_scores_<season>_week_<w>.csv,
\* replaced by the scoreboard's player rows when the scoreboard has any
base_week_scores(d, week) ==
    LET csv == Get(d.weekly_scores, week, <<>>)
        scoreboard_df == IF Has(d.scoreboard, week)
                         THEN d.scoreboard[week].rows ELSE <<>>
    IN  IF scoreboard_df # <<>> THEN scoreboard_df ELSE csv

\* RestOfSeasonSimulator._load_week_scores(season, week)
load_week_scores(ov, d, week) ==
    apply_completed_week_overrides(ov, base_week_scores(d, week), week)

\* RestOfSeasonSimulator._load_week_projection(season, week)
load_week_projection(ov, d, week) ==
    apply_projection_overrides(ov, Get(d.projections, week, <<>>), week)

\* one lineup entry of a TeamProjection
lineup_entry(row, points_column) ==
    [player_name |-> row.player_name,
     projected_points |-> row[points_column],
     counts_for_score |-> row.counts_for_score]

\* RestOfSeasonSimulator._summarize_team_points(teams, table, points_column)
summarize_team_points(teams, table, points_column) ==
    [t \in TeamIdsOf(table) \cap teams |->
        LET team_rows == RowsOfTeam(table, t)
            entries == [i \in 1..Len(team_rows) |->
                          lineup_entry(team_rows[i], points_column)]
            starters == SelectSeq(entries, LAMBDA e : e.counts_for_score)
            bench == SelectSeq(entries, LAMBDA e : ~e.counts_for_score)
            keyed(es) == [i \in 1..Len(es) |-> <<es[i].projected_points, es[i]>>]
        IN  [team |-> t,
             projected_points |->
                SumSeq([i \in 1..Len(starters) |-> starters[i].projected_points]),
             starters |-> Items(SortPairsDesc(keyed(starters))),
             bench |-> Items(SortPairsDesc(keyed(bench)))]]

----------------------------------------------------------------------------
(* simulator.py: matchup results *)

WinnerFlags == {"HOME", "AWAY", "TIE"}

\* str(winner or "").upper()
WinnerUpper(winner) == IF winner = NoneStr THEN "" ELSE Upper(winner)

\* RestOfSeasonSimulator._load_scoreboard_live_entries(season): one entry per
\* (week, matchup id) of the view-mScoreboard-week-<w>.json files
load_scoreboard_live_entries(d) ==
    LET keys == UNION {{<<w, m>> : m \in DOMAIN d.scoreboard[w].entries} :
                         w \in DOMAIN d.scoreboard}
    IN  [k \in keys |-> d.scoreboard[k[1]].entries[k[2]]]

\* RestOfSeasonSimulator._load_roster_live_totals(season): the weeks whose
\* roster file yields any team total
load_roster_live_totals(d) ==
    [w \in {x \in DOMAIN d.roster_totals : DOMAIN d.roster_totals[x] # {}} |->
        d.roster_totals[w]]

\* the body of the loop, mutated: live points replace the stored points
\* whenever there are live points
live_enriched_always(key, payload, scoreboard_entries, roster_totals_by_week) ==
    LET week == key[1]
        has_entry == Has(scoreboard_entries, key)
        has_totals == Has(roster_totals_by_week, week)
        live(side, field) ==
            IF has_entry THEN Get(scoreboard_entries[key], field, payload[field])
            ELSE IF has_totals
            THEN Get(roster_totals_by_week[week], payload[side], payload[field])
            ELSE payload[field]
    IN  [payload EXCEPT !.home_points = live("home_team_id", "home_points"),
                        !.away_points = live("away_team_id", "away_points")]

\* the body of the loop of _apply_live_score_overrides for one payload
live_enriched(key, payload, scoreboard_entries, roster_totals_by_week) ==
    LET week == key[1]
        winner_raw == WinnerUpper(Get(payload, "winner", NoneStr))
        has_entry == Has(scoreboard_entries, key)
        scoreboard_entry == scoreboard_entries[key]
        has_totals == Has(roster_totals_by_week, week)
        week_totals == roster_totals_by_week[week]
        home_has_live == IF has_entry THEN Has(scoreboard_entry, "home_points")
                         ELSE has_totals /\ Has(week_totals, payload.home_team_id)
        home_live == IF has_entry THEN scoreboard_entry.home_points
                     ELSE week_totals[payload.home_team_id]
        away_has_live == IF has_entry THEN Has(scoreboard_entry, "away_points")
                         ELSE has_totals /\ Has(week_totals, payload.away_team_id)
        away_live == IF has_entry THEN scoreboard_entry.away_points
                     ELSE week_totals[payload.away_team_id]
        home_points ==
            IF home_has_live /\ (payload.home_points <= 0 \/ winner_raw \notin WinnerFlags)
            THEN home_live ELSE payload.home_points
        away_points ==
            IF away_has_live /\ (payload.away_points <= 0 \/ winner_raw \notin WinnerFlags)
            THEN away_live ELSE payload.away_points
        with_points == [payload EXCEPT !.home_points = home_points,
                                       !.away_points = away_points]
    IN  IF winner_raw \in WinnerFlags
        THEN ("status" :> Get(payload, "status", "final")) @@ with_points
        ELSE IF has_entry /\ scoreboard_entry.status # ""
        THEN ("status" :> scoreboard_entry.status) @@ with_points
        ELSE IF has_totals \/ has_entry
        THEN ("status" :> "in_progress") @@ with_points
        ELSE with_points

\* RestOfSeasonSimulator._apply_live_score_overrides(season, results)
apply_live_score_overrides(d, results) ==
    LET scoreboard_entries == load_scoreboard_live_entries(d)
        roster_totals_by_week == load_roster_live_totals(d)
    IN  IF DOMAIN results = {} THEN results
        ELSE IF DOMAIN scoreboard_entries = {} /\ DOMAIN roster_totals_by_week = {}
        THEN results
        ELSE [k \in DOMAIN results |->
                live_enriched(k, results[k], scoreboard_entries, roster_totals_by_week)]

\* the overlay's matchup overrides, keyed like the results: (week, matchup id)
matchup_override_payloads(ov) ==
    LET keys == UNION {{<<w, m>> : m \in DOMAIN ov.completed_weeks[w].matchup_overrides} :
                         w \in DOMAIN ov.completed_weeks}
    IN  [k \in keys |-> ov.completed_weeks[k[1]].matchup_overrides[k[2]]]

\* RestOfSeasonSimulator._apply_matchup_overrides(results): each field the
\* override carries replaces the field of the result; an override of a
\* matchup with no result makes a new entry only if it names both teams
apply_matchup_overrides(ov, results) ==
    IF IsNone(ov) THEN results
    ELSE LET payloads == matchup_override_payloads(ov)
             created == {k \in DOMAIN payloads \ DOMAIN results :
                           /\ Has(payloads[k], "home_team_id")
                           /\ Has(payloads[k], "away_team_id")}
         IN  [k \in DOMAIN results \cup created |->
                IF ~Has(payloads, k) THEN results[k]
                ELSE IF Has(results, k) THEN payloads[k] @@ results[k]
                ELSE payloads[k]]

\* _load_matchup_results, mutated: the points of a team that has an overlay
\* lineup for the week are reconciled with the lineup, as the total of its
\* entries that count
load_matchup_results_reconciled(ov, d) ==
    LET results == IF ~d.matchup_json.exists THEN EmptyDict
                   ELSE apply_matchup_overrides(ov,
                           apply_live_score_overrides(d, d.matchup_json.schedule))
        lineup(w, t) == IF IsNone(ov) \/ ~Has(ov.completed_weeks, w) THEN <<>>
                        ELSE normalized_entries(
                                t, Get(ov.completed_weeks[w].team_lineups, t, <<>>),
                                "score_total")
        total(w, t) == SumSeq([i \in 1..Len(lineup(w, t)) |->
                                 IF lineup(w, t)[i].counts_for_score
                                 THEN lineup(w, t)[i].score_total ELSE 0])
        points(k, side, field) ==
            IF Has(results[k], side) /\ lineup(k[1], results[k][side]) # <<>>
            THEN total(k[1], results[k][side])
            ELSE Get(results[k], field, 0)
    IN  [k \in DOMAIN results |->
           [home_points |-> points(k, "home_team_id", "home_points"),
            away_points |-> points(k, "away_team_id", "away_points")]
           @@ results[k]]

\* RestOfSeasonSimulator._load_matchup_results(season): view-mMatchup.json,
\* then the live scores, then the overlay
load_matchup_results(ov, d) ==
    IF ~d.matchup_json.exists THEN EmptyDict
    ELSE apply_matchup_overrides(ov,
            apply_live_score_overrides(d, d.matchup_json.schedule))

----------------------------------------------------------------------------
(* simulator.py: win probabilities *)

\* 1.0 as a fixed-point number: wins, losses and probabilities are counted
\* in 1/Scale, which is 5 digits
Scale == 100000

Half == Scale \div 2

DEFAULT_SIGMA == 18

DEFAULT_PLAYOFF_SLOTS == 4

\* a sigma a thousand times the default one: a point of margin moves the
\* probability by two units of the fifth digit
WideSigma == 1000 * DEFAULT_SIGMA

\* round(x, digits) of a value counted in 1/Scale, unit being Scale / 10^digits:
\* the nearest multiple of the unit, a half going to the even one
RoundTo(x, unit) ==
    LET q == x \div unit
        r == x % unit
    IN  IF 2 * r < unit THEN unit * q
        ELSE IF 2 * r > unit THEN unit * (q + 1)
        ELSE IF q % 2 = 0 THEN unit * q ELSE unit * (q + 1)

\* round(Scale * 0.5 * (1 + erf(m / (sqrt(2) * 18.0)))) for the margins
\* m = 0, 1, 2, ...; the value is Scale from the last entry on
PhiTable ==
    <<
       50000, 52215, 54424, 56618, 58793, 60941, 63056, 65132, 67164, 69146,
       71074, 72944, 74751, 76492, 78165, 79767, 81297, 82753, 84134, 85441,
       86674, 87833, 88919, 89934, 90879, 91757, 92569, 93319, 94009, 94642,
       95221, 95749, 96228, 96662, 97055, 97408, 97725, 98009, 98262, 98487,
       98687, 98863, 99018, 99155, 99275, 99379, 99470, 99549, 99617, 99676,
       99726, 99770, 99807, 99838, 99865, 99888, 99907, 99923, 99936, 99948,
       99957, 99965, 99971, 99977, 99981, 99985, 99988, 99990, 99992, 99994,
       99995, 99996, 99997, 99997, 99998, 99998, 99999, 99999, 99999, 99999,
       100000
    >>

\* the same for sigma = 18000.0 and the margins m = 0..80
PhiTableWide ==
    <<
       50000, 50002, 50004, 50007, 50009, 50011, 50013, 50016, 50018, 50020,
       50022, 50024, 50027, 50029, 50031, 50033, 50035, 50038, 50040, 50042,
       50044, 50047, 50049, 50051, 50053, 50055, 50058, 50060, 50062, 50064,
       50066, 50069, 50071, 50073, 50075, 50078, 50080, 50082, 50084, 50086,
       50089, 50091, 50093, 50095, 50098, 50100, 50102, 50104, 50106, 50109,
       50111, 50113, 50115, 50117, 50120, 50122, 50124, 50126, 50129, 50131,
       50133, 50135, 50137, 50140, 50142, 50144, 50146, 50148, 50151, 50153,
       50155, 50157, 50160, 50162, 50164, 50166, 50168, 50171, 50173, 50175,
       50177
    >>

\* 0.5 * (1.0 + math.erf(margin / (math.sqrt(2) * sigma))), clamped to
\* [0, 1], for sigma = 18 and sigma = 18000
gaussian_home_prob(margin, sigma) ==
    LET m == Abs(margin)
        upper == IF sigma = WideSigma THEN PhiTableWide[m + 1]
                 ELSE IF m + 1 > Len(PhiTable) THEN Scale
                 ELSE PhiTable[m + 1]
    IN  IF margin >= 0 THEN upper ELSE Scale - upper

\* _estimate_win_probabilities, mutated: the Gaussian formula is used for
\* every sigma
estimate_always_gaussian(home_points, away_points, sigma) ==
    LET home_prob == gaussian_home_prob(home_points - away_points, DEFAULT_SIGMA)
    IN  <<home_prob, Scale - home_prob>>

\* RestOfSeasonSimulator._estimate_win_probabilities(home, away, sigma)
estimate_win_probabilities(home_points, away_points, sigma) ==
    LET margin == home_points - away_points
        home_prob == gaussian_home_prob(margin, sigma)
    IN  IF sigma <= 0
        THEN IF margin > 0 THEN <<Scale, 0>>
             ELSE IF margin < 0 THEN <<0, Scale>>
             ELSE <<Half, Half>>
        ELSE <<home_prob, Scale - home_prob>>

\* the number of times _estimate_win_probabilities calls math.erf: the
\* branch of sigma <= 0 returns before the call
erf_calls(home_points, away_points, sigma) == IF sigma <= 0 THEN 0 ELSE 1

\* MatchupProjection.favorite_team_id (0 stands for None)
favorite_team_id(m) ==
    IF m.home_win_probability > m.away_win_probability THEN m.home.team
    ELSE IF m.away_win_probability > m.home_win_probability THEN m.away.team
    ELSE 0

\* RestOfSeasonSimulator._matchup_to_dict(matchup)
matchup_to_dict(m) ==
    [matchup_id |-> m.matchup_id,
     week |-> m.week,
     home |-> m.home,
     away |-> m.away,
     favorite_team_id |-> favorite_team_id(m),
     projected_margin |-> m.home.projected_points - m.away.projected_points,
     home_win_probability |-> RoundTo(m.home_win_probability, Scale \div 10000),
     away_win_probability |-> RoundTo(m.away_win_probability, Scale \div 10000)]

----------------------------------------------------------------------------
(* simulator.py: build_dataset, one operator per stretch of the method.     *)
(* F is the call frame, ov the simulator's _active_overlay, d the disk, a   *)
(* the arguments.                                                           *)

NoFrame == [pc |-> "idle"]

Raised(error) == [pc |-> "finally", pending |-> [kind |-> "raised", error |-> error]]

WeekSchedule(schedule, week) == SelectSeq(schedule, LAMBDA row : row.week = week)

\* _default_start_week, mutated: the completed weeks are not looked at
default_start_week_ignores_completed(projection_weeks, completed_weeks) ==
    projection_weeks[1]

\* RestOfSeasonSimulator._default_start_week(projection_weeks, completed_weeks)
default_start_week(projection_weeks, completed_weeks) ==
    IF completed_weeks = <<>> THEN projection_weeks[1]
    ELSE LET last_completed == completed_weeks[Len(completed_weeks)]
             later == {projection_weeks[i] : i \in 1..Len(projection_weeks)}
                         \cap {w \in Int : w > last_completed}
         IN  IF later # {} THEN Min(later) ELSE projection_weeks[1]

\* effective_end, mutated: the end_week argument is ignored
effective_end_ignores_argument(a, projection_weeks) ==
    projection_weeks[Len(projection_weeks)]

\* effective_end = end_week or max(projection_weeks)
effective_end_of(a, projection_weeks) ==
    IF a.end_week # 0 THEN a.end_week
    ELSE projection_weeks[Len(projection_weeks)]

\* the history weeks, mutated: every completed week is reconciled, also one
\* at or after the effective start week
history_weeks_unfiltered(completed_weeks, effective_start) == completed_weeks

\* history_weeks = [wk for wk in completed_weeks if wk < effective_start]
history_weeks_of(completed_weeks, effective_start) ==
    SelectSeq(completed_weeks, LAMBDA wk : wk < effective_start)

\* build_dataset from `teams = self._load_teams(season)` to
\* `matchup_results = self._load_matchup_results(season)`
load_inputs(F, ov, d, a) ==
    LET teams == d.teams
        schedule == d.schedule
        projection_weeks == SetToSortedSeq(DOMAIN d.projections)
        completed_weeks == SetToSortedSeq(DOMAIN d.weekly_scores)
        default_start == default_start_week(projection_weeks, completed_weeks)
        effective_start == IF a.start_week # 0 THEN a.start_week ELSE default_start
        effective_end == effective_end_of(a, projection_weeks)
        weeks_to_process ==
            SelectSeq(projection_weeks,
                      LAMBDA wk : effective_start <= wk /\ wk <= effective_end)
        history_weeks == history_weeks_of(completed_weeks, effective_start)
    IN  IF teams = {} THEN Raised("FileNotFoundError")
        ELSE IF schedule = <<>> THEN Raised("FileNotFoundError")
        ELSE IF projection_weeks = <<>> THEN Raised("FileNotFoundError")
        ELSE IF effective_start > effective_end THEN Raised("ValueError")
        ELSE IF weeks_to_process = <<>> THEN Raised("ValueError")
        ELSE [pc |-> "history",
              overlay |-> F.overlay,
              teams |-> teams,
              schedule |-> schedule,
              effective_start |-> effective_start,
              effective_end |-> effective_end,
              weeks_to_process |-> weeks_to_process,
              history_weeks |-> history_weeks,
              matchup_results |-> load_matchup_results(ov, d),
              team_schedule |-> [t \in teams |-> <<>>],
              standings_tracker |->
                 [t \in teams |-> [wins |-> 0, losses |-> 0, ties |-> 0, points |-> 0]],
              actual_matchups_by_week |-> EmptyDict,
              future_matchups_by_week |-> EmptyDict,
              matchup_rows |-> <<>>,
              base_records |-> EmptyDict,
              week_todo |-> history_weeks,
              matchup_todo |-> <<>>,
              week |-> 0,
              table |-> <<>>,
              points_column |-> "",
              team_points |-> EmptyDict]

\* the head of `for week in history_weeks`: the week's merged score table
\* and its team totals; a week with an empty table is skipped
enter_history_week(F, ov, d) ==
    LET week == Head(F.week_todo)
        scores_df == load_week_scores(ov, d, week)
        week_schedule == WeekSchedule(F.schedule, week)
    IN  IF scores_df = <<>> \/ week_schedule = <<>>
        THEN [F EXCEPT !.week_todo = Tail(F.week_todo), !.week = week,
                       !.table = scores_df, !.points_column = "score_total",
                       !.team_points = EmptyDict]
        ELSE [F EXCEPT !.pc = "history_week",
                       !.week = week,
                       !.table = scores_df,
                       !.points_column = "score_total",
                       !.team_points = summarize_team_points(F.teams, scores_df,
                                                             "score_total"),
                       !.matchup_todo = week_schedule]

\* the status build_dataset gives a history matchup
matchup_status(actual, home_points, away_points) ==
    LET status_raw == Get(actual, "status", "")
        winner_upper == WinnerUpper(Get(actual, "winner", NoneStr))
    IN  IF status_raw \in {"final", "in_progress"} THEN status_raw
        ELSE IF winner_upper \in WinnerFlags THEN "final"
        ELSE IF home_points - away_points # 0 \/ home_points > 0 \/ away_points > 0
        THEN "in_progress"
        ELSE "scheduled"

\* the probabilities and results build_dataset gives a history matchup
matchup_verdict(is_final, winner_upper, margin) ==
    IF ~is_final
    THEN [home_prob |-> Half, away_prob |-> Half,
          home_result |-> NoneStr, away_result |-> NoneStr]
    ELSE IF winner_upper = "HOME" \/ (winner_upper \notin WinnerFlags /\ margin > 0)
    THEN [home_prob |-> Scale, away_prob |-> 0,
          home_result |-> "win", away_result |-> "loss"]
    ELSE IF winner_upper = "AWAY" \/ (winner_upper \notin WinnerFlags /\ margin < 0)
    THEN [home_prob |-> 0, away_prob |-> Scale,
          home_result |-> "loss", away_result |-> "win"]
    ELSE [home_prob |-> Half, away_prob |-> Half,
          home_result |-> "tie", away_result |-> "tie"]

\* the standings update of a history matchup, mutated: a matchup that is
\* not final is tallied as well
tally_actual_ignores_status(tracker, is_final, home, away, home_points, away_points, home_result) ==
    [tracker EXCEPT
       ![home] = [@ EXCEPT !.points = @ + home_points,
                           !.wins = @ + (IF home_result = "win" THEN Scale ELSE 0),
                           !.losses = @ + (IF home_result = "loss" THEN Scale ELSE 0),
                           !.ties = @ + (IF home_result \notin {"win", "loss"}
                                         THEN Scale ELSE 0)],
       ![away] = [@ EXCEPT !.points = @ + away_points,
                           !.wins = @ + (IF home_result = "loss" THEN Scale ELSE 0),
                           !.losses = @ + (IF home_result = "win" THEN Scale ELSE 0),
                           !.ties = @ + (IF home_result \notin {"win", "loss"}
                                         THEN Scale ELSE 0)]]

\* the standings update of a history matchup, mutated: a tie counts as half
\* a win and half a loss for each team
tally_actual_tie_as_half_win(tracker, is_final, home, away, home_points, away_points, home_result) ==
    LET half == IF home_result \notin {"win", "loss"} THEN Half ELSE 0
    IN  IF ~is_final THEN tracker
        ELSE [tracker EXCEPT
                ![home] = [@ EXCEPT !.points = @ + home_points,
                              !.wins = @ + (IF home_result = "win" THEN Scale ELSE half),
                              !.losses = @ + (IF home_result = "loss" THEN Scale ELSE half)],
                ![away] = [@ EXCEPT !.points = @ + away_points,
                              !.wins = @ + (IF home_result = "loss" THEN Scale ELSE half),
                              !.losses = @ + (IF home_result = "win" THEN Scale ELSE half)]]

\* `if is_final:` of a history matchup: the points and the win, loss or tie
\* of both teams go into standings_tracker
tally_actual(tracker, is_final, home, away, home_points, away_points, home_result) ==
    IF ~is_final THEN tracker
    ELSE [tracker EXCEPT
            ![home] = [@ EXCEPT !.points = @ + home_points,
                          !.wins = @ + (IF home_result = "win" THEN Scale ELSE 0),
                          !.losses = @ + (IF home_result = "loss" THEN Scale ELSE 0),
                          !.ties = @ + (IF home_result \notin {"win", "loss"}
                                        THEN Scale ELSE 0)],
            ![away] = [@ EXCEPT !.points = @ + away_points,
                          !.wins = @ + (IF home_result = "loss" THEN Scale ELSE 0),
                          !.losses = @ + (IF home_result = "win" THEN Scale ELSE 0),
                          !.ties = @ + (IF home_result \notin {"win", "loss"}
                                        THEN Scale ELSE 0)]]

\* a team's schedule entry for a history matchup
actual_entry(week, matchup_id, opponent, is_home, points, opp_points, prob, result, status) ==
    [week |-> week,
     matchup_id |-> matchup_id,
     opponent_team_id |-> opponent,
     is_home |-> is_home,
     projected_points |-> points,
     opponent_projected_points |-> opp_points,
     win_probability |-> prob,
     projected_margin |-> points - opp_points,
     is_actual |-> TRUE,
     result |-> result,
     status |-> status,
     actual_points |-> points,
     opponent_actual_points |-> opp_points]

Append2(dict, key, item) ==
    (key :> Append(Get(dict, key, <<>>), item)) @@ dict

\* the body of `for _, matchup in week_schedule.iterrows()` of a history week
reconcile_matchup(F) ==
    LET week == F.week
        matchup == Head(F.matchup_todo)
        home == matchup.home_team_id
        away == matchup.away_team_id
        matchup_id == matchup.matchup_id
        key == <<week, matchup_id>>
        rest == [F EXCEPT !.matchup_todo = Tail(F.matchup_todo)]
        actual == F.matchup_results[key]
        home_proj == F.team_points[home]
        away_proj == F.team_points[away]
        home_points == Get(actual, "home_points", home_proj.projected_points)
        away_points == Get(actual, "away_points", away_proj.projected_points)
        winner_upper == WinnerUpper(Get(actual, "winner", NoneStr))
        margin == home_points - away_points
        status_raw == matchup_status(actual, home_points, away_points)
        is_final == status_raw = "final"
        v == matchup_verdict(is_final, winner_upper, margin)
        home_after == [home_proj EXCEPT !.projected_points = home_points]
        away_after == [away_proj EXCEPT !.projected_points = away_points]
        matchup_dict ==
            matchup_to_dict([week |-> week, matchup_id |-> matchup_id,
                             home |-> home_after, away |-> away_after,
                             home_win_probability |-> v.home_prob,
                             away_win_probability |-> v.away_prob])
            @@ [is_actual |-> TRUE,
                status |-> status_raw,
                result |-> [home |-> v.home_result, away |-> v.away_result],
                final_score |-> [home |-> home_points, away |-> away_points]]
    IN  IF ~Has(F.matchup_results, key) \/ ~Has(F.team_points, home)
           \/ ~Has(F.team_points, away)
        THEN rest
        ELSE [rest EXCEPT
                !.team_points = [@ EXCEPT ![home] = home_after, ![away] = away_after],
                !.standings_tracker =
                    tally_actual(@, is_final, home, away, home_points, away_points,
                                 v.home_result),
                !.team_schedule =
                    [@ EXCEPT
                       ![home] = Append(@, actual_entry(week, matchup_id, away, TRUE,
                                          home_points, away_points, v.home_prob,
                                          v.home_result, status_raw)),
                       ![away] = Append(@, actual_entry(week, matchup_id, home, FALSE,
                                          away_points, home_points, v.away_prob,
                                          v.away_result, status_raw))],
                !.actual_matchups_by_week = Append2(@, week, matchup_dict)]

\* reconcile_matchup, then on to the next week after the week's last matchup
reconcile_step(F) ==
    LET G == reconcile_matchup(F)
    IN  IF G.matchup_todo = <<>>
        THEN [G EXCEPT !.pc = "history", !.week_todo = Tail(@)]
        ELSE G

\* base_records = {...}: the Monte Carlo baseline, taken after the history
finish_history(F) ==
    [F EXCEPT !.pc = "projection",
              !.week_todo = F.weeks_to_process,
              !.base_records =
                 [t \in F.teams |->
                    [wins |-> F.standings_tracker[t].wins,
                     losses |-> F.standings_tracker[t].losses,
                     points |-> F.standings_tracker[t].points]]]

\* the head of `for week in weeks_to_process`: the week's merged projection
\* table and its team totals; a week with an empty table is skipped
enter_projection_week(F, ov, d) ==
    LET week == Head(F.week_todo)
        projections == load_week_projection(ov, d, week)
        week_schedule == WeekSchedule(F.schedule, week)
    IN  IF projections = <<>> \/ week_schedule = <<>>
        THEN [F EXCEPT !.week_todo = Tail(F.week_todo), !.week = week,
                       !.table = projections, !.points_column = "projected_points",
                       !.team_points = EmptyDict]
        ELSE [F EXCEPT !.pc = "projection_week",
                       !.week = week,
                       !.table = projections,
                       !.points_column = "projected_points",
                       !.team_points = summarize_team_points(F.teams, projections,
                                                             "projected_points"),
                       !.matchup_todo = week_schedule]

\* the standings update of a projected matchup, mutated: the favourite gets
\* a whole win and the other team a whole loss
tally_projected_whole_wins(tracker, home_proj, away_proj, home_prob, away_prob) ==
    LET home_wins == IF home_prob >= away_prob THEN Scale ELSE 0
    IN  [tracker EXCEPT
           ![home_proj.team] = [@ EXCEPT !.wins = @ + home_wins,
                                         !.losses = @ + (Scale - home_wins),
                                         !.points = @ + home_proj.projected_points],
           ![away_proj.team] = [@ EXCEPT !.wins = @ + (Scale - home_wins),
                                         !.losses = @ + home_wins,
                                         !.points = @ + away_proj.projected_points]]

\* the standings update of a projected matchup
tally_projected(tracker, home_proj, away_proj, home_prob, away_prob) ==
    LET tie == IF home_prob = away_prob THEN Scale ELSE 0
    IN  [tracker EXCEPT
           ![home_proj.team] = [@ EXCEPT !.wins = @ + home_prob,
                                         !.losses = @ + away_prob,
                                         !.points = @ + home_proj.projected_points,
                                         !.ties = @ + tie],
           ![away_proj.team] = [@ EXCEPT !.wins = @ + away_prob,
                                         !.losses = @ + home_prob,
                                         !.points = @ + away_proj.projected_points,
                                         !.ties = @ + tie]]

\* a team's schedule entry for a projected matchup
projected_entry(week, matchup_id, opponent, is_home, points, opp_points, prob) ==
    [week |-> week,
     matchup_id |-> matchup_id,
     opponent_team_id |-> opponent,
     is_home |-> is_home,
     projected_points |-> points,
     opponent_projected_points |-> opp_points,
     win_probability |-> prob,
     projected_margin |-> points - opp_points,
     is_actual |-> FALSE]

\* the body of the projected week's loop, mutated: a home team whose
\* opponent has no row is given the matchup as a sure win
project_matchup_keeps_home(F, a) ==
    LET week == F.week
        matchup == Head(F.matchup_todo)
        home == matchup.home_team_id
        away == matchup.away_team_id
        rest == [F EXCEPT !.matchup_todo = Tail(F.matchup_todo)]
    IN  IF Has(F.team_points, home) /\ ~Has(F.team_points, away)
        THEN [rest EXCEPT
                !.standings_tracker =
                    [@ EXCEPT ![home] = [@ EXCEPT !.wins = @ + Scale]],
                !.team_schedule =
                    [@ EXCEPT
                       ![home] = Append(@, projected_entry(week, matchup.matchup_id,
                                          away, TRUE,
                                          F.team_points[home].projected_points,
                                          0, Scale))]]
        ELSE IF ~Has(F.team_points, home) THEN rest
        ELSE [rest EXCEPT
                !.team_schedule =
                    [@ EXCEPT
                       ![home] = Append(@, projected_entry(week, matchup.matchup_id,
                                          away, TRUE,
                                          F.team_points[home].projected_points,
                                          F.team_points[away].projected_points, Half)),
                       ![away] = Append(@, projected_entry(week, matchup.matchup_id,
                                          home, FALSE,
                                          F.team_points[away].projected_points,
                                          F.team_points[home].projected_points, Half))]]

\* the body of `for _, matchup in week_schedule.iterrows()` of a projected week
project_matchup(F, a) ==
    LET week == F.week
        matchup == Head(F.matchup_todo)
        home == matchup.home_team_id
        away == matchup.away_team_id
        matchup_id == matchup.matchup_id
        rest == [F EXCEPT !.matchup_todo = Tail(F.matchup_todo)]
        home_proj == F.team_points[home]
        away_proj == F.team_points[away]
        probs == estimate_win_probabilities(home_proj.projected_points,
                                            away_proj.projected_points, a.sigma)
        matchup_proj == [week |-> week, matchup_id |-> matchup_id,
                         home |-> home_proj, away |-> away_proj,
                         home_win_probability |-> probs[1],
                         away_win_probability |-> probs[2]]
    IN  IF ~Has(F.team_points, home) \/ ~Has(F.team_points, away)
        THEN rest
        ELSE [rest EXCEPT
                !.matchup_rows = Append(@, matchup_proj),
                !.future_matchups_by_week = Append2(@, week, matchup_proj),
                !.standings_tracker =
                    tally_projected(@, home_proj, away_proj, probs[1], probs[2]),
                !.team_schedule =
                    [@ EXCEPT
                       ![home] = Append(@, projected_entry(week, matchup_id, away, TRUE,
                                          home_proj.projected_points,
                                          away_proj.projected_points, probs[1])),
                       ![away] = Append(@, projected_entry(week, matchup_id, home, FALSE,
                                          away_proj.projected_points,
                                          home_proj.projected_points, probs[2]))]]

\* project_matchup, then on to the next week after the week's last matchup
project_step(F, a) ==
    LET G == project_matchup(F, a)
    IN  IF G.matchup_todo = <<>>
        THEN [G EXCEPT !.pc = "projection", !.week_todo = Tail(@)]
        ELSE G

\* the standings list: one record per team, sorted by wins, then points,
\* both descending (average_projected_points is left out)
standings_of(F, team_schedule) ==
    LET order == SetToSortedSeq(F.teams)
        rec(t) ==
            [team |-> t,
             projected_record |->
                [wins |-> RoundTo(F.standings_tracker[t].wins, Scale \div 1000),
                 losses |-> RoundTo(F.standings_tracker[t].losses, Scale \div 1000),
                 ties |-> RoundTo(F.standings_tracker[t].ties, Scale \div 1000)],
             projected_points |-> F.standings_tracker[t].points,
             games_remaining |->
                Len(SelectSeq(team_schedule[t], LAMBDA e : ~e.is_actual))]
        by_points == Items(SortPairsDesc(
                        [i \in 1..Len(order) |->
                           <<rec(order[i]).projected_points, rec(order[i])>>]))
    IN  Items(SortPairsDesc(
           [i \in 1..Len(by_points) |->
              <<by_points[i].projected_record.wins, by_points[i]>>]))

\* weeks_payload: a history week that has actual matchups lists them, any
\* other week lists its projected matchups, if it has any
weeks_payload_of(F) ==
    LET all_weeks == SetToSortedSeq(
                        {F.history_weeks[i] : i \in 1..Len(F.history_weeks)}
                        \cup {F.weeks_to_process[i] : i \in 1..Len(F.weeks_to_process)})
        future_dicts(week) ==
            LET ms == Get(F.future_matchups_by_week, week, <<>>)
            IN  [i \in 1..Len(ms) |-> matchup_to_dict(ms[i]) @@ [is_actual |-> FALSE]]
        payload(week) ==
            IF Has(F.actual_matchups_by_week, week)
            THEN <<[week |-> week, matchups |-> F.actual_matchups_by_week[week]]>>
            ELSE IF future_dicts(week) # <<>>
            THEN <<[week |-> week, matchups |-> future_dicts(week)]>>
            ELSE <<>>
    IN  Flatten([i \in 1..Len(all_weeks) |-> payload(all_weeks[i])])

\* random_seed = None (the seeds of the model are naturals)
NoSeed == 0 - 1

\* rng.random() in fixed point: the values a roll can take
Rolls == {0, Half, Scale - 1}

\* random.Random(random_seed).random(): the roll after `draws` earlier rolls
\* of a generator made with an integer seed, a fixed function of the two
Twister(random_seed, draws) ==
    <<Half, 0, Scale - 1>>[(((random_seed + 2) * (draws + 1) + draws * draws) % 3) + 1]

\* the rolls of the generator, mutated: the seed is not given to the generator
rng_random_unseeded(random_seed, draws) == Rolls

\* the values the next rng.random() can return: random.Random(None) is
\* seeded from the system, random.Random(seed) repeats
rng_random(random_seed, draws) ==
    IF random_seed = NoSeed THEN Rolls ELSE {Twister(random_seed, draws)}

\* count / iterations_float, kept as an exact fraction
Ratio(count, iterations) == [num |-> count, den |-> iterations]

\* round(total / iterations_float, digits) with the total counted in units:
\* the nearest whole number of units, a half going to the even one
RoundDiv(total, iterations) ==
    LET q == total \div iterations
        r == total % iterations
    IN  IF 2 * r < iterations THEN q
        ELSE IF 2 * r > iterations THEN q + 1
        ELSE IF q % 2 = 0 THEN q ELSE q + 1

\* the head of `for _ in range(iterations)`, mutated: after the first
\* iteration the wins, losses and points go on from the iteration before
begin_iteration_carries_over(mc, base_records) ==
    LET base(t, key) == Get(Get(base_records, t, EmptyDict), key, 0)
        ids == {mc.team_ids[i] : i \in 1..Len(mc.team_ids)}
    IN  IF mc.done > 0 THEN [mc EXCEPT !.todo = mc.matchups]
        ELSE [mc EXCEPT !.wins = [t \in ids |-> base(t, "wins")],
                        !.losses = [t \in ids |-> base(t, "losses")],
                        !.points = [t \in ids |-> base(t, "points")],
                        !.todo = mc.matchups]

\* the head of `for _ in range(iterations)`: wins, losses and points start
\* from base_records, the matchups are taken in week order
begin_iteration(mc, base_records) ==
    LET base(t, key) == Get(Get(base_records, t, EmptyDict), key, 0)
        ids == {mc.team_ids[i] : i \in 1..Len(mc.team_ids)}
    IN  [mc EXCEPT !.wins = [t \in ids |-> base(t, "wins")],
                   !.losses = [t \in ids |-> base(t, "losses")],
                   !.points = [t \in ids |-> base(t, "points")],
                   !.todo = mc.matchups]

\* _run_monte_carlo up to the first iteration (one matchup a week, so that
\* the sort by week and matchup_id leaves matchup_rows as it is)
monte_carlo_begin(F, a, dataset) ==
    LET team_ids == SetToSortedSeq(F.teams)
        matchups == Items(SortPairsAsc([i \in 1..Len(F.matchup_rows) |->
                             <<F.matchup_rows[i].week, F.matchup_rows[i]>>]))
        mc == [iterations |-> a.sim_iterations,
               playoff_slots |-> IF a.playoff_slots <= 0 THEN 0 ELSE a.playoff_slots,
               random_seed |-> a.random_seed,
               draws |-> 0,
               done |-> 0,
               team_ids |-> team_ids,
               aggregates |->
                  [t \in F.teams |->
                     [win_total |-> 0, loss_total |-> 0, points_total |-> 0,
                      seed_counts |-> EmptyDict, playoff_count |-> 0,
                      top_seed_count |-> 0, best_seed |-> 0, worst_seed |-> 0]],
               matchups |-> matchups,
               todo |-> <<>>, wins |-> <<>>, losses |-> <<>>, points |-> <<>>]
    IN  IF a.sim_iterations <= 0 THEN Raised("ValueError")
        ELSE [pending |-> [kind |-> "returned", dataset |-> dataset],
              mc |-> begin_iteration(mc, F.base_records)]
             @@ [F EXCEPT !.pc = "monte_carlo"]

\* the body of `for matchup in matchup_groups[week]` with the roll drawn
simulate_matchup(mc, roll) ==
    LET matchup == Head(mc.todo)
        home_id == matchup.home.team
        away_id == matchup.away.team
        scored == [mc.points EXCEPT ![home_id] = @ + matchup.home.projected_points,
                                    ![away_id] = @ + matchup.away.projected_points]
        home_won == roll < matchup.home_win_probability
    IN  [mc EXCEPT
           !.todo = Tail(mc.todo),
           !.draws = @ + 1,
           !.points = scored,
           !.wins = IF home_won THEN [@ EXCEPT ![home_id] = @ + Scale]
                    ELSE [@ EXCEPT ![away_id] = @ + Scale],
           !.losses = IF home_won THEN [@ EXCEPT ![away_id] = @ + Scale]
                      ELSE [@ EXCEPT ![home_id] = @ + Scale]]

\* the iteration's standings, mutated: the points do not break a tie of wins
standings_iteration_by_wins(team_ids, wins, points) ==
    Items(SortPairsDesc([i \in 1..Len(team_ids) |-> <<wins[team_ids[i]], team_ids[i]>>]))

\* sorted(team_ids, key=lambda tid: (wins[tid], points[tid]), reverse=True):
\* teams that are equal in both keep the order of team_ids
standings_iteration(team_ids, wins, points) ==
    LET by_points == Items(SortPairsDesc(
                        [i \in 1..Len(team_ids) |-> <<points[team_ids[i]], team_ids[i]>>]))
    IN  Items(SortPairsDesc(
           [i \in 1..Len(by_points) |-> <<wins[by_points[i]], by_points[i]>>]))

\* the seed index of a team, mutated: the seeds are counted from 0
seed_index_from_zero(standings, team_id) ==
    (CHOOSE i \in 1..Len(standings) : standings[i] = team_id) - 1

\* enumerate(standings_iteration, start=1): the seed index of a team
seed_index_of(standings, team_id) ==
    CHOOSE i \in 1..Len(standings) : standings[i] = team_id

\* if seed_index <= playoff_slots: the seed is a playoff berth
berth(seed_index, playoff_slots) == seed_index <= playoff_slots

\* `for seed_index, team_id in enumerate(standings_iteration, start=1)`
tally_iteration(mc) ==
    LET standings == standings_iteration(mc.team_ids, mc.wins, mc.points)
        tally(t, data) ==
            LET seed_index == seed_index_of(standings, t)
            IN  [win_total |-> data.win_total + mc.wins[t],
                 loss_total |-> data.loss_total + mc.losses[t],
                 points_total |-> data.points_total + mc.points[t],
                 seed_counts |->
                    (seed_index :> (Get(data.seed_counts, seed_index, 0) + 1))
                    @@ data.seed_counts,
                 playoff_count |-> data.playoff_count
                    + (IF berth(seed_index, mc.playoff_slots) THEN 1 ELSE 0),
                 top_seed_count |-> data.top_seed_count
                    + (IF seed_index = 1 THEN 1 ELSE 0),
                 best_seed |-> IF data.best_seed = 0 THEN seed_index
                               ELSE Min({data.best_seed, seed_index}),
                 worst_seed |-> Max({data.worst_seed, seed_index})]
    IN  [mc EXCEPT !.done = @ + 1,
                   !.aggregates = [t \in DOMAIN @ |-> tally(t, @[t])]]

\* median_seed: the first seed at which the cumulative share reaches 0.5
RECURSIVE median_seed_of(_, _, _, _)
median_seed_of(seeds, seed_counts, cumulative, iterations) ==
    IF seeds = <<>> THEN 0
    ELSE LET reached == cumulative + seed_counts[Head(seeds)]
         IN  IF 2 * reached >= iterations THEN Head(seeds)
             ELSE median_seed_of(Tail(seeds), seed_counts, reached, iterations)

\* _run_monte_carlo from `teams_payload = []` to its return (average_wins
\* and average_losses are counted in thousandths, average_points in
\* hundredths; best_seed and median_seed 0 stand for None)
monte_carlo_summary(mc, team_schedule) ==
    LET iterations == mc.iterations
        payload(t) ==
            LET data == mc.aggregates[t]
                seeds == SetToSortedSeq(DOMAIN data.seed_counts)
            IN  [team |-> t,
                 average_wins |->
                    RoundDiv(data.win_total, (Scale \div 1000) * iterations),
                 average_losses |->
                    RoundDiv(data.loss_total, (Scale \div 1000) * iterations),
                 average_points |-> RoundDiv(100 * data.points_total, iterations),
                 games_remaining |->
                    Len(SelectSeq(team_schedule[t], LAMBDA e : ~e.is_actual)),
                 playoff_odds |-> Ratio(data.playoff_count, iterations),
                 top_seed_odds |-> Ratio(data.top_seed_count, iterations),
                 seed_distribution |->
                    [k \in {ToString(seed) : seed \in DOMAIN data.seed_counts} |->
                       LET seed == CHOOSE x \in DOMAIN data.seed_counts : ToString(x) = k
                       IN  Ratio(data.seed_counts[seed], iterations)],
                 best_seed |-> data.best_seed,
                 worst_seed |-> data.worst_seed,
                 median_seed |-> median_seed_of(seeds, data.seed_counts, 0, iterations)]
        teams_payload ==
            Items(SortPairsDesc([i \in 1..Len(mc.team_ids) |->
                     <<payload(mc.team_ids[i]).playoff_odds.num, payload(mc.team_ids[i])>>]))
    IN  [iterations |-> iterations,
         playoff_slots |-> mc.playoff_slots,
         random_seed |-> mc.random_seed,
         teams |-> teams_payload]

\* the end of an iteration: the seeds are tallied; after the last iteration
\* the summary becomes dataset["monte_carlo"] and the dataset is returned
rank_iteration(F) ==
    LET mc == tally_iteration(F.mc)
    IN  IF mc.done < mc.iterations
        THEN [F EXCEPT !.mc = begin_iteration(mc, F.base_records)]
        ELSE [F EXCEPT !.pc = "finally",
                       !.mc = mc,
                       !.pending.dataset =
                          [monte_carlo |-> monte_carlo_summary(mc, F.team_schedule)] @@ @]

\* build_dataset from `matchup_rows.sort(...)` to `return dataset`
\* (generated_at and the team metadata are left out)
assemble(F, a) ==
    LET team_schedule ==
            [t \in F.teams |->
               Items(SortPairsAsc([i \in 1..Len(F.team_schedule[t]) |->
                        <<F.team_schedule[t][i].week, F.team_schedule[t][i]>>]))]
        overlay == F.overlay
        dataset ==
            [start_week |-> F.weeks_to_process[1],
             end_week |-> F.weeks_to_process[Len(F.weeks_to_process)],
             projection_sigma |-> a.sigma,
             teams |-> SetToSortedSeq(F.teams),
             team_schedule |-> team_schedule,
             weeks |-> weeks_payload_of(F),
             standings |-> standings_of(F, team_schedule),
             completed_weeks |-> F.history_weeks,
             sources |-> [projections_weeks |-> F.weeks_to_process,
                          completed_weeks |-> F.history_weeks,
                          scenario_id |-> overlay.metadata.scenario_id],
             scenario |->
                [id |-> overlay.metadata.scenario_id,
                 is_baseline |-> overlay.metadata.scenario_id = BASELINE_SCENARIO_ID,
                 overrides |->
                    [completed_weeks |-> SetToSortedSeq(DOMAIN overlay.completed_weeks),
                     projection_weeks |->
                        SetToSortedSeq(DOMAIN overlay.projection_weeks)]]]
        sorted == [F EXCEPT !.team_schedule = team_schedule]
    IN  IF a.sim_iterations > 0
        THEN monte_carlo_begin(sorted, a, dataset)
        ELSE [sorted EXCEPT !.pc = "finally"]
             @@ [pending |-> [kind |-> "returned", dataset |-> dataset]]

\* one step of a build_dataset call that has loaded its overlay
step(F, ov, d, a) ==
    CASE F.pc = "load" -> load_inputs(F, ov, d, a)
      [] F.pc = "history" /\ F.week_todo # <<>> -> enter_history_week(F, ov, d)
      [] F.pc = "history" /\ F.week_todo = <<>> -> finish_history(F)
      [] F.pc = "history_week" -> reconcile_step(F)
      [] F.pc = "projection" /\ F.week_todo # <<>> -> enter_projection_week(F, ov, d)
      [] F.pc = "projection" /\ F.week_todo = <<>> -> assemble(F, a)
      [] F.pc = "projection_week" -> project_step(F, a)

\* the steps of a call up to its finally clause
RECURSIVE run_to_finally(_, _, _, _)
run_to_finally(F, ov, d, a) ==
    IF F.pc = "finally" THEN F ELSE run_to_finally(step(F, ov, d, a), ov, d, a)

----------------------------------------------------------------------------
(* The league on disk: two teams that meet once a week *)

\* the season has the weeks 1..MaxWeek
MaxWeek == 3

Teams == {1, 2}

MatchupIdOf(week) == <<"101", "202", "303", "404", "505", "606">>[week]

\* schedule.csv: team 1 is at home in the odd weeks, team 2 in the even ones
Schedule ==
    [w \in 1..MaxWeek |->
       [week |-> w,
        matchup_id |-> MatchupIdOf(w),
        home_team_id |-> IF w % 2 = 1 THEN 1 ELSE 2,
        away_team_id |-> IF w % 2 = 1 THEN 2 ELSE 1]]

Row(team_id, player_name, column, points, counts) ==
    (column :> points) @@
    [team_id |-> team_id, player_name |-> player_name, counts_for_score |-> counts]

\* projected_stats_week_<w>.csv
ProjectionRows(w) ==
    IF w % 2 = 1
    THEN << Row(1, "Alpha QB", "projected_points", 18, TRUE),
            Row(1, "Alpha RB", "projected_points", 12, TRUE),
            Row(1, "Alpha K", "projected_points", 6, FALSE),
            Row(2, "Beta QB", "projected_points", 19, TRUE),
            Row(2, "Beta WR", "projected_points", 16, TRUE) >>
    ELSE << Row(1, "Alpha WR", "projected_points", 17, TRUE),
            Row(1, "Alpha FLEX", "projected_points", 11, TRUE),
            Row(2, "Beta RB", "projected_points", 10, TRUE),
            Row(2, "Beta FLEX", "projected_points", 18, TRUE) >>

\* weekly_scores_<season>_week_<w>.csv files: the completed weeks
ScoresBoth ==
    << Row(1, "Alpha QB", "score_total", 100, TRUE),
       Row(1, "Alpha K", "score_total", 9, FALSE),
       Row(1, "Alpha RB", "score_total", 20, TRUE),
       Row(2, "Beta QB", "score_total", 115, TRUE) >>

ScoresTeam1Only == << Row(1, "Alpha QB", "score_total", 120, TRUE) >>

ScoresWeek2 ==
    << Row(2, "Beta RB", "score_total", 95, TRUE),
       Row(1, "Alpha WR", "score_total", 90, TRUE) >>

WeeklyScoresChoices ==
    { EmptyDict,
      1 :> ScoresBoth,
      1 :> ScoresTeam1Only,
      (1 :> ScoresBoth) @@ (2 :> ScoresWeek2) }

\* view-mMatchup.json
Result(home, away, home_points, away_points, winner) ==
    [home_team_id |-> home, away_team_id |-> away,
     home_points |-> home_points, away_points |-> away_points, winner |-> winner]

Week2Open == <<2, "202">> :> Result(2, 1, 0, 0, "UNDECIDED")

MatchupJsonChoices ==
    { [exists |-> FALSE, schedule |-> EmptyDict],
      [exists |-> TRUE,
       schedule |-> (<<1, "101">> :> Result(1, 2, 120, 115, "AWAY")) @@ Week2Open],
      [exists |-> TRUE,
       schedule |-> (<<1, "101">> :> Result(1, 2, 110, 110, "TIE"))
                    @@ (<<2, "202">> :> Result(2, 1, 95, 90, "HOME"))],
      [exists |-> TRUE,
       schedule |-> (<<1, "101">> :> Result(1, 2, 60, 50, "UNDECIDED")) @@ Week2Open],
      [exists |-> TRUE,
       schedule |-> (<<1, "101">> :> Result(1, 2, 0, 0, NoneStr)) @@ Week2Open],
      [exists |-> TRUE,
       schedule |-> (<<1, "101">> :> Result(1, 2, 120, 0, "HOME")) @@ Week2Open] }

\* view-mScoreboard-week-<w>.json and view-mRoster-week-<w>.json
LiveChoices ==
    { [scoreboard |-> EmptyDict, roster_totals |-> EmptyDict],
      [scoreboard |->
          1 :> [entries |-> "101" :> [status |-> "in_progress",
                                      home_points |-> 70, away_points |-> 65],
                rows |-> <<>>],
       roster_totals |-> EmptyDict],
      [scoreboard |->
          1 :> [entries |-> "101" :> [status |-> "final",
                                      home_points |-> 130, away_points |-> 125],
                rows |-> << Row(1, "Alpha QB", "score_total", 130, TRUE),
                            Row(2, "Beta QB", "score_total", 125, TRUE) >>],
       roster_totals |-> EmptyDict],
      [scoreboard |-> EmptyDict,
       roster_totals |-> 1 :> ((1 :> 80) @@ (2 :> 75))] }

\* overlays/<season>/<scenario id>.json
MissingFile == [kind |-> "missing"]

ObjectFile(raw) == [kind |-> "object", raw |-> raw]

OverlayLineups ==
    (1 :> << [player_name |-> "Overlay QB", score_total |-> 150,
              counts_for_score |-> TRUE] >>)
    @@ (2 :> << [player_name |-> "Overlay Opp QB", score_total |-> 90,
                 counts_for_score |-> TRUE] >>)

OverlayTeam1Only ==
    (1 :> << [player_name |-> "Overlay RB", points |-> 40],
             [player_name |-> "Overlay K", score_total |-> 7,
              counts_for_score |-> FALSE] >>)
    @@ (2 :> <<>>)

OverlayScore ==
    "101" :> [home_team_id |-> 1, away_team_id |-> 2,
              home_points |-> 150, away_points |-> 90, winner |-> "home"]

OverlayProjection ==
    2 :> [teams |->
            (1 :> << [player_name |-> "Overlay Week2 QB", projected_points |-> 99,
                      counts_for_score |-> TRUE] >>)
            @@ (2 :> << [player_name |-> "Overlay Week2 RB",
                         projected_points |-> 30] >>)]

FullOverlay ==
    ObjectFile([scenario_id |-> "whatif",
                completed_weeks |->
                   1 :> [teams |-> OverlayLineups, matchups |-> OverlayScore],
                projection_weeks |-> OverlayProjection])

WhatIfChoices ==
    { MissingFile,
      [kind |-> "invalid"],
      [kind |-> "nonobject"],
      ObjectFile([scenario_id |-> "whatif"]),
      FullOverlay,
      ObjectFile([completed_weeks |-> 1 :> [teams |-> OverlayTeam1Only]]),
      ObjectFile([completed_weeks |-> 1 :> [matchups |-> OverlayScore],
                  projection_weeks |-> OverlayProjection]),
      ObjectFile([completed_weeks |->
                     (1 :> [matchups |-> "101" :> [home_points |-> 150]])
                     @@ (2 :> [matchups |-> "202" :> [away_points |-> 99,
                                                      winner |-> "AWAY"]])]) }

\* the overlay directory: whatif.json, and in some cases a file baseline.json
OverlayDirs ==
    { [whatif |-> wf, baseline |-> MissingFile] : wf \in WhatIfChoices }
    \cup { [whatif |-> wf, baseline |-> FullOverlay] : wf \in {MissingFile, FullOverlay} }

Disks ==
    { [teams |-> Teams,
       schedule |-> Schedule,
       projections |-> [w \in 1..MaxWeek |-> ProjectionRows(w)],
       weekly_scores |-> ws,
       matchup_json |-> mj,
       scoreboard |-> live.scoreboard,
       roster_totals |-> live.roster_totals,
       overlays |-> dir] :
      ws \in WeeklyScoresChoices, mj \in MatchupJsonChoices, live \in LiveChoices,
      dir \in OverlayDirs }

ScenarioIds == {NoneStr, "", BASELINE_SCENARIO_ID, "whatif"}

StartWeeks == {0, 1, MaxWeek + 1}

Sigmas == {0, DEFAULT_SIGMA}

----------------------------------------------------------------------------
(* The simulator *)

NoSaved == [none |-> TRUE]

NotCalled == [kind |-> "none"]

NoArgs == [none |-> TRUE]

\* RestOfSeasonSimulator.__init__
Init ==
    /\ disk \in Disks
    /\ active_overlay = NoOverlay
    /\ active_scenario_id = BASELINE_SCENARIO_ID
    /\ args = NoArgs
    /\ saved = NoSaved
    /\ loc = NoFrame
    /\ outcome = NotCalled

\* the arguments of build_dataset; end_week, sim_iterations, playoff_slots
\* and random_seed at their defaults
Arguments(scenario_id, start_week, sigma) ==
    [scenario_id |-> scenario_id, sigma |-> sigma, end_week |-> 0,
     start_week |-> start_week, random_seed |-> NoSeed, sim_iterations |-> 0,
     playoff_slots |-> DEFAULT_PLAYOFF_SLOTS]

\* build_dataset up to `try:`: the overlay is loaded and made the active one
BuildCall(a) ==
    LET scenario_key == IF Falsy(a.scenario_id) THEN BASELINE_SCENARIO_ID
                        ELSE a.scenario_id
        loaded == load_overlay(disk.overlays, scenario_key)
        overlay == loaded.overlay
    IN  /\ loc.pc = "idle"
        /\ args' = a
        /\ IF loaded.raised
           THEN /\ outcome' = [kind |-> "raised", error |-> loaded.error]
                /\ UNCHANGED <<active_overlay, active_scenario_id, saved, loc>>
           ELSE /\ saved' = [overlay |-> active_overlay,
                             scenario_id |-> active_scenario_id]
                /\ active_overlay' =
                      IF DOMAIN overlay.completed_weeks # {}
                         \/ DOMAIN overlay.projection_weeks # {}
                      THEN overlay ELSE NoOverlay
                /\ active_scenario_id' = overlay.metadata.scenario_id
                /\ loc' = [pc |-> "load", overlay |-> overlay]
                /\ outcome' = [kind |-> "running"]
        /\ UNCHANGED disk

\* a call with end_week and the Monte Carlo arguments left out
BuildBegin(scenario_id, start_week, sigma) ==
    BuildCall(Arguments(scenario_id, start_week, sigma))

\* build_dataset from `teams = self._load_teams(season)` to the load of the
\* matchup results; a missing input or an empty week range raises
LoadInputs ==
    /\ loc.pc = "load"
    /\ loc' = load_inputs(loc, active_overlay, disk, args)
    /\ UNCHANGED <<disk, active_overlay, active_scenario_id, args, saved, outcome>>

\* `for week in history_weeks`: the next week's scores are loaded and merged;
\* after the last week base_records is taken
HistoryWeek ==
    /\ loc.pc = "history"
    /\ loc' = IF loc.week_todo # <<>>
              THEN enter_history_week(loc, active_overlay, disk)
              ELSE finish_history(loc)
    /\ UNCHANGED <<disk, active_overlay, active_scenario_id, args, saved, outcome>>

\* one matchup of the history week is reconciled
ReconcileMatchup ==
    /\ loc.pc = "history_week"
    /\ loc' = reconcile_step(loc)
    /\ UNCHANGED <<disk, active_overlay, active_scenario_id, args, saved, outcome>>

\* `for week in weeks_to_process`: the next week's projections are loaded and
\* merged; after the last week the dataset is assembled
ProjectionWeek ==
    /\ loc.pc = "projection"
    /\ loc' = IF loc.week_todo # <<>>
              THEN enter_projection_week(loc, active_overlay, disk)
              ELSE assemble(loc, args)
    /\ UNCHANGED <<disk, active_overlay, active_scenario_id, args, saved, outcome>>

\* one matchup of the projected week is projected
ProjectMatchup ==
    /\ loc.pc = "projection_week"
    /\ loc' = project_step(loc, args)
    /\ UNCHANGED <<disk, active_overlay, active_scenario_id, args, saved, outcome>>

\* the finally clause, mutated: the previous overlay is not put back
FinallyKeepsOverlay ==
    /\ loc.pc = "finally"
    /\ outcome' = loc.pending
    /\ loc' = NoFrame
    /\ saved' = NoSaved
    /\ UNCHANGED <<disk, args, active_overlay, active_scenario_id>>

\* the finally clause of build_dataset, and the return or the raise
Finally ==
    /\ loc.pc = "finally"
    /\ active_overlay' = saved.overlay
    /\ active_scenario_id' = saved.scenario_id
    /\ outcome' = loc.pending
    /\ loc' = NoFrame
    /\ saved' = NoSaved
    /\ UNCHANGED <<disk, args>>

Next ==
    \/ \E s \in ScenarioIds, w \in StartWeeks, sg \in Sigmas : BuildBegin(s, w, sg)
    \/ LoadInputs
    \/ HistoryWeek
    \/ ReconcileMatchup
    \/ ProjectionWeek
    \/ ProjectMatchup
    \/ Finally

Spec == Init /\ [][Next]_vars

----------------------------------------------------------------------------
(* Properties *)

\* the call has a week's merged table at hand
HasTable == Has(loc, "table") /\ loc.points_column # ""

\* the week's table before the overlay is merged in
BaseTable ==
    IF loc.points_column = "score_total" THEN base_week_scores(disk, loc.week)
    ELSE Get(disk.projections, loc.week, <<>>)

\* the lineup entries the scenario's overlay lists for team t in the week of
\* the table at hand
OverlayEntries(t) ==
    LET weeks == IF loc.points_column = "score_total"
                 THEN loc.overlay.completed_weeks
                 ELSE loc.overlay.projection_weeks
        lineups == IF Has(weeks, loc.week) THEN weeks[loc.week].team_lineups
                   ELSE EmptyDict
    IN  Get(lineups, t, <<>>)

\* C1: in a merged week table, of a completed week or of a projected week, a
\* team with at least one overlay entry for the week has exactly the
\* overlay's rows and none of its base rows; every other team has exactly
\* its base rows.
C1_TeamGranularMerge ==
    HasTable =>
        \A t \in Teams \cup TeamIdsOf(BaseTable) \cup TeamIdsOf(loc.table) :
            RowsOfTeam(loc.table, t) =
                IF OverlayEntries(t) # <<>>
                THEN normalized_entries(t, OverlayEntries(t), loc.points_column)
                ELSE RowsOfTeam(BaseTable, t)

\* a completed week where the overlay replaces the three base rows of team 1
\* by two rows and team 2, which it has no entry for, keeps its base row
C1_Witness ==
    /\ HasTable
    /\ loc.pc = "history_week"
    /\ OverlayEntries(1) # <<>>
    /\ Len(RowsOfTeam(BaseTable, 1)) = 3
    /\ Len(RowsOfTeam(loc.table, 1)) = 2
    /\ OverlayEntries(2) = <<>>
    /\ RowsOfTeam(loc.table, 2) = RowsOfTeam(BaseTable, 2)
    /\ RowsOfTeam(loc.table, 2) # <<>>

\* what build_dataset(scenario_id, ...) gives on a simulator just constructed
FreshBuild(d, a) ==
    LET scenario_key == IF Falsy(a.scenario_id) THEN BASELINE_SCENARIO_ID
                        ELSE a.scenario_id
        loaded == load_overlay(d.overlays, scenario_key)
        overlay == loaded.overlay
        ov == IF DOMAIN overlay.completed_weeks # {}
                 \/ DOMAIN overlay.projection_weeks # {}
              THEN overlay ELSE NoOverlay
    IN  IF loaded.raised THEN [kind |-> "raised", error |-> loaded.error]
        ELSE run_to_finally([pc |-> "load", overlay |-> overlay], ov, d, a).pending

\* C2: whenever no build is running, whether the last one returned or raised,
\* the simulator has no active overlay and the baseline scenario id; the
\* result of a build is the result the same call has on a simulator just
\* constructed; and no step of a build changes the files on disk.
C2_NoOverlayStateLeft ==
    [][/\ disk' = disk
       /\ loc'.pc = "idle" =>
            /\ active_overlay' = NoOverlay
            /\ active_scenario_id' = BASELINE_SCENARIO_ID
            /\ outcome' = FreshBuild(disk, args')]_vars

\* a build under the scenario "whatif", whose overlay overrode a completed
\* week, has returned, and the simulator is back without an overlay
C2_Witness ==
    /\ loc.pc = "idle"
    /\ outcome.kind = "returned"
    /\ args.scenario_id = "whatif"
    /\ outcome.dataset.scenario.overrides.completed_weeks # <<>>
    /\ active_overlay = NoOverlay
    /\ active_scenario_id = BASELINE_SCENARIO_ID

\* the call has schedule entries at hand
HasSchedule == Has(loc, "team_schedule")

\* the recorded results after the live enrichment, before the overlay
LiveResults == apply_live_score_overrides(disk, disk.matchup_json.schedule)

\* the scenario's matchup overrides, keyed by (week, matchup id)
Overrides == matchup_override_payloads(loc.overlay)

\* field by field: the override's value if it has the field, else the value
\* of the live-enriched recorded result
Resolved(key, field) ==
    IF Has(Overrides[key], field) THEN Overrides[key][field]
    ELSE LiveResults[key][field]

\* the result a winner flag implies for the home or the away team
ImpliedResult(winner, is_home) ==
    CASE winner = "TIE" -> "tie"
      [] winner = "HOME" -> IF is_home THEN "win" ELSE "loss"
      [] winner = "AWAY" -> IF is_home THEN "loss" ELSE "win"

\* C3: the schedule entry of a history matchup that has a recorded result
\* and an overlay override reports, for its own and for the opponent's
\* actual points, the override's points where the override has them and
\* the live-enriched recorded points where it has not; if the override
\* names a winner, the entry's result is the one that winner implies.
C3_OverrideTakesPrecedence ==
    HasSchedule =>
        \A t \in DOMAIN loc.team_schedule :
            \A i \in 1..Len(loc.team_schedule[t]) :
                LET e == loc.team_schedule[t][i]
                    key == <<e.week, e.matchup_id>>
                    own == IF e.is_home THEN "home_points" ELSE "away_points"
                    opp == IF e.is_home THEN "away_points" ELSE "home_points"
                IN  (e.is_actual /\ Has(Overrides, key) /\ Has(LiveResults, key)) =>
                        /\ e.actual_points = Resolved(key, own)
                        /\ e.opponent_actual_points = Resolved(key, opp)
                        /\ Has(Overrides[key], "winner")
                           /\ Overrides[key].winner \in WinnerFlags
                             => e.result = ImpliedResult(Overrides[key].winner, e.is_home)

\* what build_dataset gives when it runs with a given overlay from a
\* simulator that has no active overlay
BuildWith(overlay, d, a) ==
    run_to_finally([pc |-> "load", overlay |-> overlay], NoOverlay, d, a).pending

\* the last build was asked for the baseline: None, "" or "baseline"
BaselineAsked ==
    /\ loc.pc = "idle"
    /\ outcome.kind # "none"
    /\ Falsy(args.scenario_id) \/ args.scenario_id = BASELINE_SCENARIO_ID

\* C4: a build with scenario_id None, "" or "baseline" has the outcome of a
\* build with the empty baseline overlay, whatever files the overlay
\* directory holds, a baseline.json included; the dataset it returns has
\* scenario id "baseline" and lists no overridden week.
C4_BaselineIdsAreBaseline ==
    BaselineAsked =>
        /\ outcome = BuildWith(empty(BASELINE_SCENARIO_ID), disk, args)
        /\ outcome.kind = "returned" =>
              /\ outcome.dataset.scenario.id = BASELINE_SCENARIO_ID
              /\ outcome.dataset.scenario.is_baseline
              /\ outcome.dataset.scenario.overrides.completed_weeks = <<>>
              /\ outcome.dataset.scenario.overrides.projection_weeks = <<>>
              /\ outcome.dataset.sources.scenario_id = BASELINE_SCENARIO_ID

\* a build asked for "baseline" has returned a dataset with a completed
\* week while the overlay directory holds a baseline.json full of overrides
C4_Witness ==
    /\ BaselineAsked
    /\ args.scenario_id = BASELINE_SCENARIO_ID
    /\ disk.overlays.baseline.kind = "object"
    /\ outcome.kind = "returned"
    /\ outcome.dataset.completed_weeks # <<>>

\* C5: a build whose scenario file is not JSON, or is JSON but no object,
\* has the outcome of the same build with an empty overlay: the malformed
\* file never makes it fail.
C5_MalformedOverlayIsEmpty ==
    (/\ loc.pc = "idle"
     /\ outcome.kind # "none"
     /\ args.scenario_id = "whatif"
     /\ disk.overlays.whatif.kind \in {"invalid", "nonobject"})
        => outcome = BuildWith(empty("whatif"), disk, args)

\* the names of the players of a list of lineup entries
PlayerNames(entries) == {entries[i].player_name : i \in 1..Len(entries)}

\* C6: a player whose overlay lineup entry has no counts_for_score is among
\* the starters of its team, and not on its bench, in a completed week, and
\* on its bench, and not among the starters, in a projected week.
C6_MissingFlagDefault ==
    (HasTable /\ loc.pc \in {"history_week", "projection_week"}) =>
        \A t \in DOMAIN loc.team_points :
            \A i \in 1..Len(OverlayEntries(t)) :
                LET raw == OverlayEntries(t)[i]
                    starters == PlayerNames(loc.team_points[t].starters)
                    bench == PlayerNames(loc.team_points[t].bench)
                IN  ~Has(raw, "counts_for_score") =>
                        IF loc.points_column = "score_total"
                        THEN raw.player_name \in starters /\ raw.player_name \notin bench
                        ELSE raw.player_name \in bench /\ raw.player_name \notin starters

\* the starter and bench invariant of one TeamProjection
PartitionHolds(tp) ==
    /\ tp.projected_points =
          SumSeq([i \in 1..Len(tp.starters) |-> tp.starters[i].projected_points])
    /\ \A i \in 1..Len(tp.starters) : tp.starters[i].counts_for_score
    /\ \A i \in 1..Len(tp.bench) : ~tp.bench[i].counts_for_score

\* C7: in a returned dataset the home and the away side of every matchup of
\* weeks[], actual or projected, have projected_points equal to the sum of
\* their starters' points, starters that all count for the score and bench
\* entries that do not.
C7_TeamProjectionPartition ==
    (loc.pc = "idle" /\ outcome.kind = "returned") =>
        \A w \in 1..Len(outcome.dataset.weeks) :
            \A m \in 1..Len(outcome.dataset.weeks[w].matchups) :
                /\ PartitionHolds(outcome.dataset.weeks[w].matchups[m].home)
                /\ PartitionHolds(outcome.dataset.weeks[w].matchups[m].away)

\* the status the winner flag and the points of a resolved result call for
StatusByFlag(winner, home_points, away_points) ==
    IF winner \in WinnerFlags THEN "final"
    ELSE IF home_points - away_points # 0 \/ home_points # 0 \/ away_points # 0
    THEN "in_progress"
    ELSE "scheduled"

\* C8: the status of the schedule entry of a history matchup is "final"
\* exactly when the resolved result (recorded, then live, then overlay) has
\* the winner flag HOME, AWAY or TIE, "in_progress" when it has no such flag
\* and a non-zero margin or non-zero points, and "scheduled" otherwise.
C8_StatusFollowsWinnerFlag ==
    HasSchedule =>
        \A t \in DOMAIN loc.team_schedule :
            \A i \in 1..Len(loc.team_schedule[t]) :
                LET e == loc.team_schedule[t][i]
                    resolved == loc.matchup_results[<<e.week, e.matchup_id>>]
                IN  e.is_actual =>
                        e.status = StatusByFlag(
                                      WinnerUpper(Get(resolved, "winner", NoneStr)),
                                      e.actual_points, e.opponent_actual_points)

Last(seq) == seq[Len(seq)]

\* this step reconciles a history matchup that has a result
Reconciles ==
    /\ loc.pc = "history_week"
    /\ loc'.team_schedule # loc.team_schedule

\* the number of entries with a given result, and the points of the final ones
CountResult(entries, result) ==
    Len(SelectSeq(entries, LAMBDA e : e.is_actual /\ e.result = result))

FinalPoints(entries) ==
    LET finals == SelectSeq(entries, LAMBDA e : e.is_actual /\ e.status = "final")
    IN  SumSeq([i \in 1..Len(finals) |-> finals[i].actual_points])

\* C9: the reconciliation of a history matchup that is not final leaves the
\* wins, losses, ties and points of every team unchanged and gives each of
\* the two teams one more schedule entry, with is_actual true, no result
\* and a win probability of exactly one half; the Monte Carlo baseline taken
\* after the history holds the wins, losses and points of the final
\* matchups only.
C9_NonFinalLeavesStandings ==
    [][/\ Reconciles =>
            LET m == Head(loc.matchup_todo)
                sides == {m.home_team_id, m.away_team_id}
            IN  Last(loc'.team_schedule[m.home_team_id]).status # "final" =>
                    /\ loc'.standings_tracker = loc.standings_tracker
                    /\ loc'.base_records = loc.base_records
                    /\ \A t \in DOMAIN loc.team_schedule :
                          IF t \in sides
                          THEN /\ Len(loc'.team_schedule[t]) = Len(loc.team_schedule[t]) + 1
                               /\ Last(loc'.team_schedule[t]).is_actual
                               /\ Last(loc'.team_schedule[t]).result = NoneStr
                               /\ Last(loc'.team_schedule[t]).win_probability = Half
                               /\ Last(loc'.team_schedule[t]).week = loc.week
                               /\ Last(loc'.team_schedule[t]).matchup_id = m.matchup_id
                          ELSE loc'.team_schedule[t] = loc.team_schedule[t]
       /\ (loc.pc = "history" /\ loc'.pc = "projection") =>
            \A t \in DOMAIN loc'.base_records :
                LET finals == SelectSeq(loc.team_schedule[t],
                                        LAMBDA e : e.status = "final")
                IN  /\ loc'.base_records[t].wins = Scale * CountResult(finals, "win")
                    /\ loc'.base_records[t].losses = Scale * CountResult(finals, "loss")
                    /\ loc'.base_records[t].points = FinalPoints(loc.team_schedule[t])]_vars

\* the history is over, team 1 has an in-progress matchup on its schedule,
\* without a result, and the baseline holds no win, loss or point for it
C9_Witness ==
    /\ HasSchedule
    /\ loc.pc = "projection"
    /\ \E i \in 1..Len(loc.team_schedule[1]) :
          /\ loc.team_schedule[1][i].is_actual
          /\ loc.team_schedule[1][i].status = "in_progress"
          /\ loc.team_schedule[1][i].result = NoneStr
          /\ loc.team_schedule[1][i].actual_points > 0
    /\ loc.base_records[1] = [wins |-> 0, losses |-> 0, points |-> 0]

\* this step reconciles a history matchup and finds it final
ReconcilesFinal ==
    /\ Reconciles
    /\ Last(loc'.team_schedule[Head(loc.matchup_todo).home_team_id]).status = "final"

\* what the step adds to a field of a team's running record
Added(t, field) == loc'.standings_tracker[t][field] - loc.standings_tracker[t][field]

\* the points a final matchup adds are the two teams' actual points
AddsActualPoints(home, away) ==
    /\ Added(home, "points") = Last(loc'.team_schedule[home]).actual_points
    /\ Added(away, "points") = Last(loc'.team_schedule[away]).actual_points

\* C10, as claimed: a final history matchup adds 1.0 to the winner's wins
\* and 0.0 to the loser's, or 0.5 to the wins of each team when it is a
\* tie, and the full actual points of both teams.
C10_TieAddsHalfAWin ==
    [][ReconcilesFinal =>
          LET home == Head(loc.matchup_todo).home_team_id
              away == Head(loc.matchup_todo).away_team_id
              result == Last(loc'.team_schedule[home]).result
          IN  /\ AddsActualPoints(home, away)
              /\ result = "win" => Added(home, "wins") = Scale /\ Added(away, "wins") = 0
              /\ result = "loss" => Added(home, "wins") = 0 /\ Added(away, "wins") = Scale
              /\ result = "tie" => Added(home, "wins") = Half /\ Added(away, "wins") = Half]_vars

\* C10, amended: a final history matchup adds 1.0 to the winner's wins and
\* to the loser's losses and nothing else to wins, losses and ties; a tie
\* adds 1.0 to the ties of each team and nothing to wins and losses; both
\* teams get their full actual points; and when the history is over, the
\* wins, losses and ties of every team are the whole numbers of its
\* matchups won, lost and tied.
C10_FinalAddsWholeResults ==
    [][/\ ReconcilesFinal =>
            LET home == Head(loc.matchup_todo).home_team_id
                away == Head(loc.matchup_todo).away_team_id
                result == Last(loc'.team_schedule[home]).result
                winner == IF result = "win" THEN home ELSE away
                loser == IF result = "win" THEN away ELSE home
            IN  /\ AddsActualPoints(home, away)
                /\ result \in {"win", "loss", "tie"}
                /\ result = "tie" =>
                      \A t \in {home, away} :
                          /\ Added(t, "wins") = 0
                          /\ Added(t, "losses") = 0
                          /\ Added(t, "ties") = Scale
                /\ result # "tie" =>
                      /\ Added(winner, "wins") = Scale
                      /\ Added(winner, "losses") = 0
                      /\ Added(loser, "wins") = 0
                      /\ Added(loser, "losses") = Scale
                      /\ Added(home, "ties") = 0 /\ Added(away, "ties") = 0
       /\ (loc.pc = "history" /\ loc'.pc = "projection") =>
            \A t \in DOMAIN loc.standings_tracker :
                /\ loc.standings_tracker[t].wins =
                      Scale * CountResult(loc.team_schedule[t], "win")
                /\ loc.standings_tracker[t].losses =
                      Scale * CountResult(loc.team_schedule[t], "loss")
                /\ loc.standings_tracker[t].ties =
                      Scale * CountResult(loc.team_schedule[t], "tie")]_vars

\* the history of two weeks is over: team 2 has tied one matchup and won
\* the other, and has one whole tie and one whole win
C10_Witness ==
    /\ HasSchedule
    /\ loc.pc = "history"
    /\ loc.week_todo = <<>>
    /\ CountResult(loc.team_schedule[2], "tie") = 1
    /\ CountResult(loc.team_schedule[2], "win") = 1
    /\ loc.standings_tracker[2].wins = Scale
    /\ loc.standings_tracker[2].ties = Scale
    /\ loc.standings_tracker[1].losses = Scale

----------------------------------------------------------------------------
(* Week ranges: builds of the baseline over seasons that differ in the      *)
(* weeks that have a projection file, a weekly-scores file and a recorded   *)
(* result, called with every start_week and end_week                        *)

\* weekly_scores_<season>_week_<w>.csv of week w
WeekScores(w) ==
    << Row(1, "Alpha QB", "score_total", 100 + w, TRUE),
       Row(2, "Beta QB", "score_total", 90, TRUE),
       Row(2, "Beta K", "score_total", 8, FALSE) >>

\* view-mMatchup.json with a final result, won by the home team, for the
\* matchup of each of the weeks 1..last
FinalsThrough(last) ==
    [k \in {<<w, MatchupIdOf(w)>> : w \in 1..last} |->
        Result(Schedule[k[1]].home_team_id, Schedule[k[1]].away_team_id,
               100 + k[1], 90, "HOME")]

\* the files of a season: the completed weeks are the first k weeks, or the
\* last week alone
WeekDisks ==
    { [teams |-> Teams,
       schedule |-> Schedule,
       projections |-> [w \in P |-> ProjectionRows(w)],
       weekly_scores |-> [w \in C |-> WeekScores(w)],
       matchup_json |-> [exists |-> TRUE, schedule |-> FinalsThrough(last)],
       scoreboard |-> EmptyDict,
       roster_totals |-> EmptyDict,
       overlays |-> [whatif |-> MissingFile, baseline |-> MissingFile]] :
      P \in SUBSET (1..MaxWeek),
      C \in {1..k : k \in 0..MaxWeek} \cup {{MaxWeek}},
      last \in {1, MaxWeek} }

InitWeeks ==
    /\ disk \in WeekDisks
    /\ active_overlay = NoOverlay
    /\ active_scenario_id = BASELINE_SCENARIO_ID
    /\ args = NoArgs
    /\ saved = NoSaved
    /\ loc = NoFrame
    /\ outcome = NotCalled

\* build_dataset(season, start_week, end_week), 0 for an argument left out
BuildWeeks(start_week, end_week) ==
    BuildCall([scenario_id |-> NoneStr, sigma |-> DEFAULT_SIGMA,
               end_week |-> end_week, start_week |-> start_week,
               random_seed |-> NoSeed, sim_iterations |-> 0,
               playoff_slots |-> DEFAULT_PLAYOFF_SLOTS])

NextWeeks ==
    \/ \E start_week \in 0..(MaxWeek + 1), end_week \in 0..MaxWeek :
          BuildWeeks(start_week, end_week)
    \/ LoadInputs
    \/ HistoryWeek
    \/ ReconcileMatchup
    \/ ProjectionWeek
    \/ ProjectMatchup
    \/ Finally

SpecWeeks == InitWeeks /\ [][NextWeeks]_vars

\* the weeks that have a projection file and the weeks that have a
\* weekly-scores file
ProjectionWeeksOnDisk == DOMAIN disk.projections

CompletedWeeksOnDisk == DOMAIN disk.weekly_scores

\* a build has been called and found teams, a schedule and projections
Called == args # NoArgs /\ ProjectionWeeksOnDisk # {}

\* the projection weeks strictly later than the latest completed week
LaterWeeks == {w \in ProjectionWeeksOnDisk : w > Max(CompletedWeeksOnDisk)}

\* the effective start and end week of the call, from its arguments and
\* the files on disk
EffectiveStart ==
    IF args.start_week # 0 THEN args.start_week
    ELSE IF CompletedWeeksOnDisk = {} THEN Min(ProjectionWeeksOnDisk)
    ELSE IF LaterWeeks # {} THEN Min(LaterWeeks)
    ELSE Min(ProjectionWeeksOnDisk)

EffectiveEnd ==
    IF args.end_week # 0 THEN args.end_week ELSE Max(ProjectionWeeksOnDisk)

\* the recorded result of the matchup of a schedule entry, if there is one
HasRecordedResult(e) == Has(disk.matchup_json.schedule, <<e.week, e.matchup_id>>)

\* C11: a team-schedule entry is actual if and only if its week is strictly
\* earlier than the effective start week, and then its matchup has a
\* recorded result; so every entry of a week at or after the effective start
\* week is projected, also when the week has a recorded final result; and a
\* team has no week with both an actual and a projected entry.
C11_ActualIffBeforeStart ==
    (Called /\ HasSchedule) =>
        \A t \in DOMAIN loc.team_schedule :
            \A i \in 1..Len(loc.team_schedule[t]) :
                LET e == loc.team_schedule[t][i]
                IN  /\ e.is_actual <=> e.week < EffectiveStart
                    /\ e.is_actual => HasRecordedResult(e)
                    /\ \A j \in 1..Len(loc.team_schedule[t]) :
                          loc.team_schedule[t][j].week = e.week
                             => loc.team_schedule[t][j].is_actual = e.is_actual

\* team 1 has an actual entry for week 1 and a projected entry for week 2,
\* the start week, although week 2 has a weekly-scores file and a recorded
\* final result
C11_Witness ==
    /\ Called /\ HasSchedule
    /\ EffectiveStart = 2
    /\ 2 \in CompletedWeeksOnDisk
    /\ Has(disk.matchup_json.schedule, <<2, MatchupIdOf(2)>>)
    /\ \E i, j \in 1..Len(loc.team_schedule[1]) :
          /\ loc.team_schedule[1][i].week = 1 /\ loc.team_schedule[1][i].is_actual
          /\ loc.team_schedule[1][j].week = 2 /\ ~loc.team_schedule[1][j].is_actual

\* the call has got past its validation of the week range
HasRange == Has(loc, "effective_start")

C13_StartAfterEndRaises ==
    (Called /\ EffectiveStart > EffectiveEnd) =>
        /\ loc.pc \in {"idle", "load", "finally"}
        /\ loc.pc = "finally" => loc.pending = [kind |-> "raised", error |-> "ValueError"]
        /\ loc.pc = "idle" => outcome = [kind |-> "raised", error |-> "ValueError"]

\* a build with start_week 3 and end_week 2 has raised ValueError, on a
\* disk that has projections for both weeks
C13_Witness ==
    /\ Called
    /\ args.start_week = 3 /\ args.end_week = 2
    /\ {2, 3} \subseteq ProjectionWeeksOnDisk
    /\ loc.pc = "idle"
    /\ outcome = [kind |-> "raised", error |-> "ValueError"]

----------------------------------------------------------------------------
(* Monte Carlo: builds of the baseline for a league of three teams, with   *)
(* every sim_iterations, playoff_slots, random_seed and sigma               *)

\* the largest sim_iterations asked for
MaxIterations == 2

\* schedule.csv: one matchup a week, the third team is idle
LeagueSchedule ==
    [w \in 1..MaxWeek |->
       [week |-> w,
        matchup_id |-> MatchupIdOf(w),
        home_team_id |-> ((w - 1) % 3) + 1,
        away_team_id |-> (w % 3) + 1]]

\* projected_stats_week_<w>.csv: every team projects the same points; or
\* team 3 projects the most and team 1 a point less than team 2, but for
\* week 3, where team 1 projects a point more than team 3; or team 1
\* projects more than team 2 and team 2 more than team 3, so that the home
\* team is ahead in the weeks 1 and 2 and behind in week 3
LeagueProjection(kind, w) ==
    << Row(1, "Alpha QB", "projected_points",
           IF kind = "even" THEN 20 ELSE IF kind = "hosts" THEN 25
           ELSE IF w = 3 THEN 27 ELSE 18, TRUE),
       Row(2, "Beta QB", "projected_points",
           IF kind = "even" THEN 20 ELSE IF kind = "hosts" THEN 22 ELSE 19, TRUE),
       Row(3, "Gamma QB", "projected_points",
           IF kind = "even" \/ kind = "hosts" THEN 20 ELSE 26, TRUE) >>

\* the recorded result of week 1: team 2 has won at team 1, the two have
\* tied, or the matchup is still open
LeagueResult(played) ==
    CASE played = "won" -> Result(1, 2, 90, 104, "AWAY")
      [] played = "tied" -> Result(1, 2, 97, 97, "TIE")
      [] OTHER -> Result(1, 2, 60, 50, "UNDECIDED")

\* week 1 has been played, with one of the three results, or no week has
\* been played
LeagueDisks ==
    { [teams |-> {1, 2, 3},
       schedule |-> LeagueSchedule,
       projections |-> [w \in 1..MaxWeek |-> LeagueProjection(kind, w)],
       weekly_scores |->
          [w \in 1..(IF played = "none" THEN 0 ELSE 1) |->
             << Row(1, "Alpha QB", "score_total", 90, TRUE),
                Row(2, "Beta QB", "score_total", 104, TRUE),
                Row(3, "Gamma QB", "score_total", 77, TRUE) >>],
       matchup_json |->
          [exists |-> TRUE,
           schedule |->
              [k \in {<<w, MatchupIdOf(w)>> :
                        w \in 1..(IF played = "none" THEN 0 ELSE 1)} |->
                 LeagueResult(played)]],
       scoreboard |-> EmptyDict,
       roster_totals |-> EmptyDict,
       overlays |-> [whatif |-> MissingFile, baseline |-> MissingFile]] :
      kind \in {"even", "skewed", "hosts"},
      played \in {"none", "won", "tied", "open"} }

InitMC ==
    /\ disk \in LeagueDisks
    /\ active_overlay = NoOverlay
    /\ active_scenario_id = BASELINE_SCENARIO_ID
    /\ args = NoArgs
    /\ saved = NoSaved
    /\ loc = NoFrame
    /\ outcome = NotCalled

\* build_dataset(season, sigma=, sim_iterations=, playoff_slots=, random_seed=)
BuildMonteCarlo(sigma, sim_iterations, playoff_slots, random_seed) ==
    BuildCall([scenario_id |-> NoneStr, sigma |-> sigma, end_week |-> 0,
               start_week |-> 0, random_seed |-> random_seed,
               sim_iterations |-> sim_iterations, playoff_slots |-> playoff_slots])

\* one matchup of the iteration is rolled
MonteCarloMatchup ==
    /\ loc.pc = "monte_carlo"
    /\ loc.mc.todo # <<>>
    /\ \E roll \in rng_random(loc.mc.random_seed, loc.mc.draws) :
          loc' = [loc EXCEPT !.mc = simulate_matchup(@, roll)]
    /\ UNCHANGED <<disk, active_overlay, active_scenario_id, args, saved, outcome>>

\* the iteration is ranked; after the last one the summary is made
MonteCarloRanking ==
    /\ loc.pc = "monte_carlo"
    /\ loc.mc.todo = <<>>
    /\ loc' = rank_iteration(loc)
    /\ UNCHANGED <<disk, active_overlay, active_scenario_id, args, saved, outcome>>

NextMC ==
    \/ \E sigma \in Sigmas \cup {WideSigma}, sim_iterations \in (0 - 1)..MaxIterations,
          playoff_slots \in {0 - 1, 1, DEFAULT_PLAYOFF_SLOTS},
          random_seed \in {NoSeed, 0, 1} :
          BuildMonteCarlo(sigma, sim_iterations, playoff_slots, random_seed)
    \/ LoadInputs
    \/ HistoryWeek
    \/ ReconcileMatchup
    \/ ProjectionWeek
    \/ ProjectMatchup
    \/ MonteCarloMatchup
    \/ MonteCarloRanking
    \/ Finally

SpecMC == InitMC /\ [][NextMC]_vars

\* the call has ended, with a dataset or with an error
Ended == args # NoArgs /\ loc.pc = "idle" /\ outcome.kind \in {"returned", "raised"}

\* C14: a build with sim_iterations = 0 that returns a dataset returns one
\* without a monte_carlo key, one with sim_iterations > 0 returns one with
\* the key, and a build with a negative sim_iterations raises an error and
\* returns no dataset.
C14_IterationsValidated ==
    Ended =>
        /\ args.sim_iterations < 0 => outcome.kind = "raised"
        /\ (args.sim_iterations = 0 /\ outcome.kind = "returned")
              => ~Has(outcome.dataset, "monte_carlo")
        /\ (args.sim_iterations > 0 /\ outcome.kind = "returned")
              => Has(outcome.dataset, "monte_carlo")

\* an iteration of the Monte Carlo run is about to be ranked
Ranking == loc.pc = "monte_carlo" /\ loc.mc.todo = <<>>

\* the number of times a team has got a seed, before and after the ranking
SeedCount(t, seed) == Get(loc.mc.aggregates[t].seed_counts, seed, 0)

SeedCountAfter(t, seed) == Get(loc'.mc.aggregates[t].seed_counts, seed, 0)

\* the seeds whose count the ranking has changed for a team
SeedsGiven(t) ==
    {seed \in 0..(Cardinality(loc.teams) + 1) : SeedCountAfter(t, seed) # SeedCount(t, seed)}

\* the seed the ranking has given to a team
SeedGiven(t) == CHOOSE seed \in SeedsGiven(t) : TRUE

\* the run has ended with this step and its summary is in the dataset
SummaryMade == loc'.pc = "finally" /\ Has(loc'.pending.dataset, "monte_carlo")

RECURSIVE SumValues(_)
SumValues(f) ==
    IF DOMAIN f = {} THEN 0
    ELSE LET k == CHOOSE x \in DOMAIN f : TRUE
         IN  f[k] + SumValues([x \in DOMAIN f \ {k} |-> f[x]])

\* C15: the ranking of an iteration gives every team one seed, the seeds of
\* the N teams are exactly 1..N, and in the summary the seed_distribution of
\* every team sums to 1 and the top_seed_odds of all teams sum to 1.
C15_SeedsArePermutation ==
    [][Ranking =>
        /\ \A t \in loc.teams :
              /\ Cardinality(SeedsGiven(t)) = 1
              /\ SeedCountAfter(t, SeedGiven(t)) = SeedCount(t, SeedGiven(t)) + 1
        /\ {SeedGiven(t) : t \in loc.teams} = 1..Cardinality(loc.teams)
        /\ SummaryMade =>
              LET entries == loc'.pending.dataset.monte_carlo.teams
                  iterations == loc'.pending.dataset.monte_carlo.iterations
              IN  /\ \A i \in 1..Len(entries) :
                        /\ \A k \in DOMAIN entries[i].seed_distribution :
                              entries[i].seed_distribution[k].den = iterations
                        /\ SumValues([k \in DOMAIN entries[i].seed_distribution |->
                                        entries[i].seed_distribution[k].num])
                              = iterations
                        /\ entries[i].top_seed_odds.den = iterations
                  /\ SumSeq([i \in 1..Len(entries) |-> entries[i].top_seed_odds.num])
                        = iterations]_vars

\* a run of two iterations has returned a summary in which a team of the
\* three has been seeded first once and second once
C15_Witness ==
    /\ Ended /\ outcome.kind = "returned"
    /\ Has(outcome.dataset, "monte_carlo")
    /\ Len(outcome.dataset.monte_carlo.teams) = 3
    /\ \E i \in 1..3 :
          LET e == outcome.dataset.monte_carlo.teams[i]
          IN  /\ DOMAIN e.seed_distribution = {"1", "2"}
              /\ e.seed_distribution["1"] = Ratio(1, 2)
              /\ e.top_seed_odds = Ratio(1, 2)

\* the Monte Carlo run of a frame with every roll taken from the generator
\* of the seed
RECURSIVE seeded_run(_)
seeded_run(F) ==
    IF F.pc # "monte_carlo" THEN F
    ELSE IF F.mc.todo # <<>>
    THEN seeded_run([F EXCEPT !.mc = simulate_matchup(
                        @, Twister(F.mc.random_seed, F.mc.draws))])
    ELSE seeded_run(rank_iteration(F))

\* the summary of the matchups, baseline records, iterations, playoff slots
\* and seed of the frame
SeededSummary(F, a) ==
    seeded_run(monte_carlo_begin(F, a, F.pending.dataset)).pending.dataset.monte_carlo

\* C16: the summary a Monte Carlo run with a seed returns is a function of
\* its matchups, baseline records, iterations, playoff slots and seed: any
\* run with the same ones returns the same per-team averages, odds, seed
\* distributions and best, worst and median seeds.
C16_SeededRunsAgree ==
    (Has(loc, "mc") /\ loc.pc = "finally" /\ args.random_seed # NoSeed) =>
        loc.pending.dataset.monte_carlo = SeededSummary(loc, args)

\* a run of two iterations with seed 1 has made its summary, and the rolls
\* have let one team be seeded first once and second once
C16_Witness ==
    /\ Has(loc, "mc") /\ loc.pc = "finally"
    /\ args.random_seed = 1 /\ args.sim_iterations = 2
    /\ \E t \in loc.teams : DOMAIN loc.mc.aggregates[t].seed_counts = {1, 2}

\* every matchup of the run has a certain winner
Deterministic ==
    \A i \in 1..Len(loc.mc.matchups) :
        loc.mc.matchups[i].home_win_probability \in {0, Scale}

\* C17: the ranking of an iteration seeds the teams by wins, and teams with
\* equal wins by points, both descending; a team's playoff count grows
\* exactly when its seed is at most playoff_slots, and playoff_odds is the
\* playoff count over the iterations; when every matchup has a certain
\* winner and playoff_slots is 1, the team seeded first has been seeded
\* first in every iteration and has playoff_odds 1, and every other team
\* has playoff_odds 0.
C17_SeededByWinsThenPoints ==
    [][Ranking =>
        /\ \A s, t \in loc.teams :
              SeedGiven(s) < SeedGiven(t) =>
                 \/ loc.mc.wins[s] > loc.mc.wins[t]
                 \/ /\ loc.mc.wins[s] = loc.mc.wins[t]
                    /\ loc.mc.points[s] >= loc.mc.points[t]
        /\ \A t \in loc.teams :
              loc'.mc.aggregates[t].playoff_count =
                 loc.mc.aggregates[t].playoff_count
                 + (IF SeedGiven(t) <= args.playoff_slots THEN 1 ELSE 0)
        /\ SummaryMade =>
              LET entries == loc'.pending.dataset.monte_carlo.teams
              IN  \A i \in 1..Len(entries) :
                     LET t == entries[i].team
                     IN  /\ entries[i].playoff_odds =
                               [num |-> loc'.mc.aggregates[t].playoff_count,
                                den |-> args.sim_iterations]
                         /\ (Deterministic /\ args.playoff_slots = 1) =>
                               IF SeedGiven(t) = 1
                               THEN /\ entries[i].playoff_odds.num = args.sim_iterations
                                    /\ entries[i].seed_distribution =
                                          ("1" :> [num |-> args.sim_iterations,
                                                   den |-> args.sim_iterations])
                               ELSE entries[i].playoff_odds.num = 0]_vars

\* a run of two iterations with sigma 0 and one playoff slot has returned:
\* the three teams have won one matchup each, team 3 has the most points
\* and the playoff odds 1, the two others have the playoff odds 0
C17_Witness ==
    /\ Ended /\ outcome.kind = "returned"
    /\ args.sigma = 0 /\ args.playoff_slots = 1 /\ args.sim_iterations = 2
    /\ Has(outcome.dataset, "monte_carlo")
    /\ LET entries == outcome.dataset.monte_carlo.teams
       IN  /\ entries[1].team = 3
           /\ entries[1].playoff_odds = Ratio(2, 2)
           /\ entries[1].average_wins = entries[2].average_wins
           /\ entries[2].playoff_odds = Ratio(0, 2)
           /\ entries[3].playoff_odds = Ratio(0, 2)

\* the matchups of weeks[] in the dataset the call is about to return
PayloadMatchups ==
    LET weeks == loc.pending.dataset.weeks
    IN  UNION {{weeks[i].matchups[j] : j \in 1..Len(weeks[i].matchups)} :
               i \in 1..Len(weeks)}

HasDataset == loc.pc = "finally" /\ loc.pending.kind = "returned"

\* C18: the two win probabilities of every matchup of weeks[] sum to 1, and
\* its favorite_team_id is the home team if the home probability is the
\* larger one, the away team if the away probability is, and None if and
\* only if the two are equal.
C18_FavoriteFollowsProbabilities ==
    HasDataset =>
        \A m \in PayloadMatchups :
            /\ m.home_win_probability + m.away_win_probability = Scale
            /\ m.favorite_team_id =
                  IF m.home_win_probability > m.away_win_probability THEN m.home.team
                  ELSE IF m.away_win_probability > m.home_win_probability
                  THEN m.away.team
                  ELSE 0

----------------------------------------------------------------------------
(* _estimate_win_probabilities as a function of its three arguments *)

\* the largest projected points of a team
MaxPoints == 4

InitEstimate ==
    /\ disk = EmptyDict
    /\ active_overlay = NoOverlay
    /\ active_scenario_id = BASELINE_SCENARIO_ID
    /\ args \in [home_points : 0..MaxPoints, away_points : 0..MaxPoints,
                 sigma : {0 - 1, 0, DEFAULT_SIGMA, WideSigma}]
    /\ saved = NoSaved
    /\ loc = NoFrame
    /\ outcome = NotCalled

\* self._estimate_win_probabilities(home_points, away_points, sigma)
Estimate ==
    /\ outcome = NotCalled
    /\ outcome' =
          [kind |-> "returned",
           value |-> estimate_win_probabilities(args.home_points, args.away_points,
                                                args.sigma),
           erf_calls |-> erf_calls(args.home_points, args.away_points, args.sigma)]
    /\ UNCHANGED <<disk, active_overlay, active_scenario_id, args, saved, loc>>

NextEstimate == Estimate

SpecEstimate == InitEstimate /\ [][NextEstimate]_vars

\* C19: with sigma <= 0 the function returns (1, 0) if the home points are
\* the greater ones, (0, 1) if the away points are, and (0.5, 0.5) if they
\* are equal, and it does not call math.erf.
C19_DegenerateSigma ==
    (outcome.kind = "returned" /\ args.sigma <= 0) =>
        /\ args.home_points > args.away_points => outcome.value = <<Scale, 0>>
        /\ args.home_points < args.away_points => outcome.value = <<0, Scale>>
        /\ args.home_points = args.away_points => outcome.value = <<Half, Half>>
        /\ outcome.erf_calls = 0

\* the function has returned (0, 1) for a negative sigma and a home team
\* that is one point behind
C19_Witness ==
    /\ outcome.kind = "returned"
    /\ args.sigma < 0
    /\ args.away_points = args.home_points + 1
    /\ outcome.value = <<0, Scale>>

----------------------------------------------------------------------------
(* cli.py: the scenario commands.  A document is the JSON object of an      *)
(* overlay file; the keys of a week section stand for str(week), and        *)
(* teams[t] stands for teams[str(t)]["entries"].  The player commands are   *)
(* modelled for calls that give --player-name and --points and no --stat.   *)

\* an option that was not given
NotGiven == 0 - 1

ClickError(error) == [raised |-> TRUE, error |-> error]

\* overlay_path.exists()
overlay_exists(files, scenario_id) ==
    Has(files, scenario_id) /\ files[scenario_id].kind # "missing"

\* _load_overlay_document(settings, season, scenario_id)
load_overlay_document(files, scenario_id) ==
    IF ~overlay_exists(files, scenario_id) THEN ClickError("ClickException")
    ELSE IF files[scenario_id].kind # "object" THEN ClickError("ClickException")
    ELSE [raised |-> FALSE, document |-> files[scenario_id].raw]

\* _write_overlay_document(path, document); "now" is the time of the write
write_overlay_document(files, scenario_id, document) ==
    [raised |-> FALSE,
     files |-> (scenario_id :> ObjectFile(("updated_at" :> "now") @@ document))
               @@ files]

\* _ensure_week_section(payload, section, week): the week's payload
ensure_week_section(document, section, week) ==
    Get(Get(document, section, EmptyDict), week, EmptyDict)

\* the document with the week's payload, which the code changes in place
put_week(document, section, week, week_payload) ==
    (section :> ((week :> week_payload) @@ Get(document, section, EmptyDict)))
    @@ document

\* _ensure_team_entries(container, team_id, value_key): the team's entries,
\* each with the value key
ensure_team_entries(week_payload, team_id, value_key) ==
    LET entries == Get(Get(week_payload, "teams", EmptyDict), team_id, <<>>)
    IN  [i \in 1..Len(entries) |->
           IF Has(entries[i], value_key) THEN entries[i]
           ELSE (value_key :> 0) @@ entries[i]]

\* the week's payload with the team's entries, which the code changes in place
put_entries(week_payload, team_id, entries) ==
    ("teams" :> ((team_id :> entries) @@ Get(week_payload, "teams", EmptyDict)))
    @@ week_payload

\* _sum_entries(entries, value_key, include_override=...)
sum_entries(entries, value_key, include_override) ==
    SumSeq([i \in 1..Len(entries) |->
              IF Get(entries[i], "scenario_override", FALSE) /\ ~include_override
              THEN 0
              ELSE IF Get(entries[i], "counts_for_score", TRUE)
              THEN Get(entries[i], value_key, 0)
              ELSE 0])

\* _total_with_override(entries, value_key), with _override_adjustment
total_with_override(entries, value_key) ==
    sum_entries(entries, value_key, FALSE)
    + SumSeq([i \in 1..Len(entries) |->
                IF Get(entries[i], "scenario_override", FALSE)
                THEN Get(entries[i], value_key, 0) ELSE 0])

\* _set_team_total, mutated: the difference always goes into a new override
\* entry, whether or not the lineup has one
set_team_total_appends(entries, value_key, points) ==
    LET diff == points - sum_entries(entries, value_key, FALSE)
    IN  IF diff = 0 THEN entries
        ELSE Append(entries, (value_key :> diff) @@
                             [player_name |-> "Scenario Override",
                              lineup_slot |-> "TOTAL",
                              espn_position |-> "",
                              counts_for_score |-> TRUE,
                              scenario_override |-> TRUE])

\* _set_team_total(entries, value_key, points)
set_team_total(entries, value_key, points) ==
    LET base_sum == sum_entries(entries, value_key, FALSE)
        diff == points - base_sum
        overrides == {i \in 1..Len(entries) :
                        Get(entries[i], "scenario_override", FALSE)}
        first == IF overrides = {} THEN 0 ELSE Min(overrides)
        override_entry == [player_name |-> "Scenario Override",
                           lineup_slot |-> "TOTAL",
                           espn_position |-> "",
                           counts_for_score |-> TRUE,
                           scenario_override |-> TRUE]
    IN  IF diff = 0
        THEN IF first = 0 THEN entries
             ELSE SubSeq(entries, 1, first - 1) \o SubSeq(entries, first + 1, Len(entries))
        ELSE IF first = 0
        THEN Append(entries, (value_key :> diff) @@ override_entry)
        ELSE [entries EXCEPT ![first] = (value_key :> diff) @@ @]

\* the winner flag of two point totals
winner_of(home_points, away_points) ==
    IF home_points = away_points THEN "TIE"
    ELSE IF home_points > away_points THEN "HOME"
    ELSE "AWAY"

\* _update_matchup_totals(week_payload, team_id, total=total)
update_matchup_totals(week_payload, team_id, total) ==
    LET matchups == week_payload["matchups"]
        with_winner(entry) ==
            ("winner" :> winner_of(Get(entry, "home_points", 0),
                                   Get(entry, "away_points", 0))) @@ entry
        updated(entry) ==
            IF Get(entry, "home_team_id", 0) = team_id
            THEN with_winner(("home_points" :> total) @@ entry)
            ELSE IF Get(entry, "away_team_id", 0) = team_id
            THEN with_winner(("away_points" :> total) @@ entry)
            ELSE entry
    IN  IF ~Has(week_payload, "matchups") THEN week_payload
        ELSE ("matchups" :> [m \in DOMAIN matchups |-> updated(matchups[m])])
             @@ week_payload

\* _find_player_entry(entries, player_name=...): the index of the entry, or 0
find_player_entry(entries, player_name) ==
    LET found == {i \in 1..Len(entries) :
                    Get(entries[i], "player_name", "") = player_name}
    IN  IF found = {} THEN 0 ELSE Min(found)

\* _load_matchups_for_overlay(settings, season, week)["matchups"]: the week's
\* matchups of view-mMatchup.json, or else those of schedule.csv
load_matchups_for_overlay(d, week) ==
    LET recorded == d.matchup_json.schedule
        keys == {k \in DOMAIN recorded : k[1] = week}
        scheduled == WeekSchedule(d.schedule, week)
    IN  IF d.matchup_json.exists /\ keys # {}
        THEN [m \in {k[2] : k \in keys} |->
                LET r == recorded[<<week, m>>]
                IN  [home_team_id |-> r.home_team_id,
                     away_team_id |-> r.away_team_id,
                     home_points |-> r.home_points,
                     away_points |-> r.away_points,
                     winner |-> IF Get(r, "winner", "") = "" THEN NoneStr
                                ELSE Upper(r.winner)]]
        ELSE [m \in {scheduled[i].matchup_id : i \in 1..Len(scheduled)} |->
                LET row == CHOOSE row \in {scheduled[i] : i \in 1..Len(scheduled)} :
                              row.matchup_id = m
                IN  [home_team_id |-> row.home_team_id,
                     away_team_id |-> row.away_team_id,
                     home_points |-> 0,
                     away_points |-> 0,
                     winner |-> NoneStr]]

\* _load_weekly_scores_for_overlay / _load_projection_week_for_overlay: the
\* rows of the week's table as the "teams" of a week section
load_week_for_overlay(df, value_key) ==
    [teams |->
        [t \in TeamIdsOf(df) |->
           LET rows == RowsOfTeam(df, t)
           IN  [i \in 1..Len(rows) |->
                  (value_key :> Get(rows[i], value_key, 0)) @@
                  [player_name |-> Get(rows[i], "player_name", ""),
                   lineup_slot |-> "",
                   espn_position |-> "",
                   counts_for_score |-> rows[i].counts_for_score]]]]

\* scenario create --id ... [--copy-completed w] [--copy-projection w]
\* [--empty-completed] [--empty-projections] [--overwrite]
scenario_create(d, scenario_id, copy_completed, copy_projection, empty_completed, empty_projections, overwrite) ==
    LET completed_section ==
            IF empty_completed THEN EmptyDict
            ELSE [w \in copy_completed |->
                    [matchups |-> load_matchups_for_overlay(d, w)]
                    @@ load_week_for_overlay(d.weekly_scores[w], "score_total")]
        projection_section ==
            IF empty_projections THEN EmptyDict
            ELSE [w \in copy_projection |->
                    load_week_for_overlay(d.projections[w], "projected_points")]
        with_completed ==
            IF DOMAIN completed_section # {} \/ empty_completed
            THEN [completed_weeks |-> completed_section] ELSE EmptyDict
        with_projections ==
            IF DOMAIN projection_section # {} \/ empty_projections
            THEN [projection_weeks |-> projection_section] ELSE EmptyDict
        payload == with_projections @@ with_completed
                   @@ [scenario_id |-> scenario_id, label |-> scenario_id,
                       updated_at |-> "now"]
    IN  IF scenario_id = BASELINE_SCENARIO_ID THEN ClickError("BadParameter")
        ELSE IF copy_completed = {} /\ copy_projection = {}
                /\ ~empty_completed /\ ~empty_projections
        THEN ClickError("UsageError")
        ELSE IF overlay_exists(d.overlays, scenario_id) /\ ~overwrite
        THEN ClickError("ClickException")
        ELSE IF ~empty_completed /\ \E w \in copy_completed : ~Has(d.weekly_scores, w)
        THEN ClickError("ClickException")
        ELSE IF ~empty_projections /\ \E w \in copy_projection : ~Has(d.projections, w)
        THEN ClickError("ClickException")
        ELSE [raised |-> FALSE,
              files |-> (scenario_id :> ObjectFile(payload)) @@ d.overlays]

\* scenario set-score --id ... --week ... --matchup ... [--home-points p]
\* [--away-points q] (a team id 0 is one that was not given)
scenario_set_score(d, scenario_id, week, matchup_id, home_team, away_team, home_points, away_points) ==
    LET loaded == load_overlay_document(d.overlays, scenario_id)
        document == loaded.document
        week_payload == ensure_week_section(document, "completed_weeks", week)
        matchups == Get(week_payload, "matchups", EmptyDict)
        matchup_entry == Get(matchups, matchup_id, EmptyDict)
        baseline_entry == Get(load_matchups_for_overlay(d, week), matchup_id, EmptyDict)
        home == IF home_team # 0 THEN home_team
                ELSE IF Get(matchup_entry, "home_team_id", 0) # 0
                THEN matchup_entry["home_team_id"]
                ELSE Get(baseline_entry, "home_team_id", 0)
        away == IF away_team # 0 THEN away_team
                ELSE IF Get(matchup_entry, "away_team_id", 0) # 0
                THEN matchup_entry["away_team_id"]
                ELSE Get(baseline_entry, "away_team_id", 0)
        with_home == IF home_points # NotGiven
                     THEN ("home_points" :> home_points) @@ matchup_entry
                     ELSE matchup_entry
        with_away == IF away_points # NotGiven
                     THEN ("away_points" :> away_points) @@ with_home
                     ELSE with_home
        with_teams == [home_team_id |-> home, away_team_id |-> away] @@ with_away
        new_entry == IF home_points # NotGiven /\ away_points # NotGiven
                     THEN ("winner" :> winner_of(home_points, away_points)) @@ with_teams
                     ELSE with_teams
        with_matchup ==
            ("matchups" :> ((matchup_id :> new_entry) @@ matchups)) @@ week_payload
        totalled(payload, team_id, points) ==
            LET entries == set_team_total(
                              ensure_team_entries(payload, team_id, "score_total"),
                              "score_total", points)
            IN  update_matchup_totals(put_entries(payload, team_id, entries), team_id,
                                      total_with_override(entries, "score_total"))
        after_home == IF home_points # NotGiven
                      THEN totalled(with_matchup, home, home_points)
                      ELSE with_matchup
        after_away == IF away_points # NotGiven
                      THEN totalled(after_home, away, away_points)
                      ELSE after_home
    IN  IF scenario_id = BASELINE_SCENARIO_ID THEN ClickError("BadParameter")
        ELSE IF loaded.raised THEN loaded
        ELSE IF home = 0 \/ away = 0 THEN ClickError("ClickException")
        ELSE write_overlay_document(
                d.overlays, scenario_id,
                put_week(document, "completed_weeks", week, after_away))

\* _locate_player_row / _locate_projection_row by name: the index of the
\* row in the table, or 0
locate_player_row(df, player_name) ==
    LET found == {i \in 1..Len(df) : Get(df[i], "player_name", "") = player_name}
    IN  IF found = {} THEN 0 ELSE Min(found)

\* the entry of the player after one of the two player commands: the row of
\* the baseline table, overlaid with the entry and the options, without the
\* keys of `dropped`, and the points
player_entry(baseline_row, entry, player_name, dropped) ==
    LET merged_row == [player_name |-> player_name] @@ entry @@ baseline_row
        kept == [k \in DOMAIN merged_row \ dropped |-> merged_row[k]]
    IN  [counts_for_score |-> Get(merged_row, "counts_for_score", TRUE)]
        @@ kept @@ entry

\* the entries with the player's entry put in its place or appended
put_player(entries, index, entry) ==
    IF index = 0 THEN Append(entries, entry) ELSE [entries EXCEPT ![index] = entry]

\* scenario set-player-score --id ... --week ... --team ... --player-name ...
\* --points ...
scenario_set_player_score(d, scenario_id, week, team_id, player_name, points) ==
    LET loaded == load_overlay_document(d.overlays, scenario_id)
        document == loaded.document
        week_payload == ensure_week_section(document, "completed_weeks", week)
        entries == ensure_team_entries(week_payload, team_id, "score_total")
        baseline_df == d.weekly_scores[week]
        row == locate_player_row(baseline_df, player_name)
        index == find_player_entry(entries, player_name)
        entry == IF index = 0 THEN EmptyDict ELSE entries[index]
        merged == player_entry(baseline_df[row], entry, player_name,
                               {"score_base", "score_bonus", "score_position",
                                "score_total"})
        scored == [score_total |-> points,
                   fantasy_points |-> IF merged.counts_for_score THEN points ELSE 0]
                  @@ merged
        changed == put_player(entries, index, scored)
        team_total == total_with_override(changed, "score_total")
        totalled == set_team_total(changed, "score_total", team_total)
    IN  IF loaded.raised THEN loaded
        ELSE IF ~Has(d.weekly_scores, week) THEN ClickError("ClickException")
        ELSE IF row = 0 THEN ClickError("ClickException")
        ELSE write_overlay_document(
                d.overlays, scenario_id,
                put_week(document, "completed_weeks", week,
                         update_matchup_totals(
                            put_entries(week_payload, team_id, totalled),
                            team_id, team_total)))

\* scenario set-player-projection --id ... --week ... --team ...
\* --player-name ... --points ...
scenario_set_player_projection(d, scenario_id, week, team_id, player_name, points) ==
    LET loaded == load_overlay_document(d.overlays, scenario_id)
        document == loaded.document
        week_payload == ensure_week_section(document, "projection_weeks", week)
        entries == ensure_team_entries(week_payload, team_id, "projected_points")
        baseline_df == d.projections[week]
        row == locate_player_row(baseline_df, player_name)
        index == find_player_entry(entries, player_name)
        entry == IF index = 0 THEN EmptyDict ELSE entries[index]
        merged == player_entry(baseline_df[row], entry, player_name,
                               {"projected_points", "score_total", "score_base",
                                "score_bonus", "score_position"})
        scored == [projected_points |-> points, score_total |-> points] @@ merged
        changed == put_player(entries, index, scored)
        totalled == set_team_total(changed, "projected_points",
                                   total_with_override(changed, "projected_points"))
    IN  IF loaded.raised THEN loaded
        ELSE IF ~Has(d.projections, week) THEN ClickError("ClickException")
        ELSE IF row = 0 THEN ClickError("ClickException")
        ELSE write_overlay_document(
                d.overlays, scenario_id,
                put_week(document, "projection_weeks", week,
                         put_entries(week_payload, team_id, totalled)))

\* scenario set-projection --id ... --week ... --team ... --points ...
scenario_set_projection(d, scenario_id, week, team_id, points) ==
    LET loaded == load_overlay_document(d.overlays, scenario_id)
        document == loaded.document
        week_payload == ensure_week_section(document, "projection_weeks", week)
        entries == set_team_total(
                      ensure_team_entries(week_payload, team_id, "projected_points"),
                      "projected_points", points)
    IN  IF scenario_id = BASELINE_SCENARIO_ID THEN ClickError("BadParameter")
        ELSE IF loaded.raised THEN loaded
        ELSE write_overlay_document(
                d.overlays, scenario_id,
                put_week(document, "projection_weeks", week,
                         put_entries(week_payload, team_id, entries)))

----------------------------------------------------------------------------
(* The scenario commands, run one after the other on an overlay directory *)

\* the largest number of commands of a run
MaxCommands == 2

\* whatif.json is missing, holds metadata only, or holds overrides for weeks
\* 1 and 2; baseline.json is missing or holds the same overrides
CliDisks ==
    { [teams |-> Teams,
       schedule |-> Schedule,
       projections |-> [w \in 1..MaxWeek |-> ProjectionRows(w)],
       weekly_scores |-> 1 :> ScoresBoth,
       matchup_json |-> mj,
       scoreboard |-> EmptyDict,
       roster_totals |-> EmptyDict,
       overlays |-> [whatif |-> wf, baseline |-> bl]] :
      mj \in {[exists |-> FALSE, schedule |-> EmptyDict],
              [exists |-> TRUE, schedule |-> FinalsThrough(1)]},
      wf \in {MissingFile, ObjectFile([scenario_id |-> "whatif"]), FullOverlay},
      bl \in {MissingFile, FullOverlay} }

CliIds == {"whatif", BASELINE_SCENARIO_ID}

InitCli ==
    /\ disk \in CliDisks
    /\ active_overlay = NoOverlay
    /\ active_scenario_id = BASELINE_SCENARIO_ID
    /\ args = NoArgs
    /\ saved = NoSaved
    /\ loc = [pc |-> "idle", commands |-> 0]
    /\ outcome = NotCalled

\* a command runs to its end: it fails, or it writes the overlay file; call
\* holds the command's name and its options
Command(call, result) ==
    /\ loc.commands < MaxCommands
    /\ loc' = [loc EXCEPT !.commands = @ + 1]
    /\ args' = call
    /\ IF result.raised
       THEN /\ outcome' = [kind |-> "raised", error |-> result.error]
            /\ disk' = disk
       ELSE /\ outcome' = [kind |-> "returned"]
            /\ disk' = [disk EXCEPT !.overlays = result.files]
    /\ UNCHANGED <<active_overlay, active_scenario_id, saved>>

Create ==
    \E scenario_id \in CliIds, copy_completed \in {{}, {1}},
       copy_projection \in {{}, {2}}, empty_completed \in BOOLEAN,
       empty_projections \in BOOLEAN, overwrite \in BOOLEAN :
       Command([command |-> "create", scenario_id |-> scenario_id],
               scenario_create(disk, scenario_id, copy_completed, copy_projection,
                               empty_completed, empty_projections, overwrite))

SetScore ==
    \E scenario_id \in CliIds, home_points \in {NotGiven, 100, 120},
       away_points \in {NotGiven, 100} :
       Command([command |-> "set-score", scenario_id |-> scenario_id,
                week |-> 1, matchup_id |-> MatchupIdOf(1),
                home_points |-> home_points, away_points |-> away_points],
               scenario_set_score(disk, scenario_id, 1, MatchupIdOf(1), 0, 0,
                                  home_points, away_points))

SetPlayerScore ==
    \E scenario_id \in CliIds, team_id \in Teams,
       player_name \in {"Alpha QB", "Beta QB", "Nobody"} :
       Command([command |-> "set-player-score", scenario_id |-> scenario_id,
                week |-> 1, team_id |-> team_id, player_name |-> player_name,
                points |-> 50],
               scenario_set_player_score(disk, scenario_id, 1, team_id,
                                         player_name, 50))

SetPlayerProjection ==
    \E scenario_id \in CliIds, team_id \in Teams,
       player_name \in {"Alpha WR", "Nobody"} :
       Command([command |-> "set-player-projection", scenario_id |-> scenario_id,
                week |-> 2, team_id |-> team_id, player_name |-> player_name,
                points |-> 25],
               scenario_set_player_projection(disk, scenario_id, 2, team_id,
                                              player_name, 25))

SetProjection ==
    \E scenario_id \in CliIds, team_id \in Teams :
       Command([command |-> "set-projection", scenario_id |-> scenario_id,
                week |-> 2, team_id |-> team_id, points |-> 40],
               scenario_set_projection(disk, scenario_id, 2, team_id, 40))

NextCli ==
    \/ Create
    \/ SetScore
    \/ SetPlayerScore
    \/ SetPlayerProjection
    \/ SetProjection

SpecCli == InitCli /\ [][NextCli]_vars

\* a command has run in this step
Ran == loc'.commands = loc.commands + 1

\* C20: a scenario command that is given the id 'baseline' fails and leaves
\* the overlay directory as it is, whether or not baseline.json exists.
C20_BaselineNeverWritten ==
    [][(Ran /\ args'.scenario_id = BASELINE_SCENARIO_ID) =>
          /\ outcome'.kind = "raised"
          /\ disk'.overlays = disk.overlays]_vars

----------------------------------------------------------------------------
(* Projected matchups and the standings *)

\* this step projects a matchup of a week to process
Projects ==
    /\ loc.pc = "projection_week"
    /\ Len(loc'.matchup_rows) = Len(loc.matchup_rows) + 1

\* C21: a projected matchup adds to the home team's record its own win
\* probability as wins, the away team's win probability as losses and its
\* full projected points, and the same the other way round for the away
\* team, so that the wins of the two teams grow by 1 together and so do
\* their losses; no other team's wins, losses or points change.
C21_ProjectedAddsProbabilities ==
    [][Projects =>
          LET m == Last(loc'.matchup_rows)
              home == m.home.team
              away == m.away.team
              starters(side) ==
                  SumSeq([i \in 1..Len(side.starters) |->
                             side.starters[i].projected_points])
          IN  /\ home = Head(loc.matchup_todo).home_team_id
              /\ away = Head(loc.matchup_todo).away_team_id
              /\ Added(home, "wins") = m.home_win_probability
              /\ Added(home, "losses") = m.away_win_probability
              /\ Added(home, "points") = starters(m.home)
              /\ Added(away, "wins") = m.away_win_probability
              /\ Added(away, "losses") = m.home_win_probability
              /\ Added(away, "points") = starters(m.away)
              /\ Added(home, "wins") + Added(away, "wins") = Scale
              /\ Added(home, "losses") + Added(away, "losses") = Scale
              /\ Last(loc'.team_schedule[home]).win_probability = Added(home, "wins")
              /\ Last(loc'.team_schedule[away]).win_probability = Added(away, "wins")
              /\ \A t \in DOMAIN loc.standings_tracker \ {home, away} :
                    loc'.standings_tracker[t] = loc.standings_tracker[t]]_vars

\* the projections are over and team 2 has a record with a fraction of a
\* win and a fraction of a loss that is not a half
C21_Witness ==
    /\ Has(loc, "standings_tracker")
    /\ loc.pc = "projection"
    /\ loc.week_todo = <<>>
    /\ loc.matchup_rows # <<>>
    /\ loc.standings_tracker[2].wins % Half # 0
    /\ loc.standings_tracker[2].losses % Half # 0
    /\ loc.standings_tracker[2].points > 0

----------------------------------------------------------------------------
(* The iterations of a Monte Carlo run *)

\* an iteration of the Monte Carlo run is under way
Iterating == loc.pc = "monte_carlo"

\* the forward matchups the iteration has resolved so far
ResolvedSoFar == Len(loc.mc.matchups) - Len(loc.mc.todo)

\* the wins, losses and points of the history, as the standings of the
\* dataset's actual entries give them
PhaseOne(t) ==
    LET finals == SelectSeq(loc.team_schedule[t],
                            LAMBDA e : e.is_actual /\ e.status = "final")
    IN  [wins |-> Scale * CountResult(finals, "win"),
         losses |-> Scale * CountResult(finals, "loss"),
         points |-> FinalPoints(loc.team_schedule[t])]

\* C22: every iteration starts from the wins, losses and points of the
\* history, whatever the iterations before it did; it resolves every forward
\* matchup once, in ascending week order, with one draw for each; the home
\* team wins if and only if the draw is below the home win probability, so
\* a probability of 1 is always a home win and one of 0 always an away win.
C22_IterationFromBaseline ==
    [][/\ (Iterating /\ ResolvedSoFar = 0) =>
             \A t \in DOMAIN loc.mc.wins :
                 /\ loc.mc.wins[t] = PhaseOne(t).wins
                 /\ loc.mc.losses[t] = PhaseOne(t).losses
                 /\ loc.mc.points[t] = PhaseOne(t).points
       /\ Iterating =>
             /\ loc.mc.draws = loc.mc.done * Len(loc.mc.matchups) + ResolvedSoFar
             /\ loc.mc.todo = SubSeq(loc.mc.matchups, ResolvedSoFar + 1,
                                     Len(loc.mc.matchups))
             /\ loc.mc.matchups = loc.matchup_rows
             /\ \A i, j \in 1..Len(loc.mc.matchups) :
                   i < j => loc.mc.matchups[i].week < loc.mc.matchups[j].week
       /\ (Iterating /\ loc.mc.todo # <<>>) =>
             LET matchup == Head(loc.mc.todo)
                 home == matchup.home.team
                 away == matchup.away.team
                 home_won == /\ loc'.mc.wins[home] = loc.mc.wins[home] + Scale
                             /\ loc'.mc.losses[away] = loc.mc.losses[away] + Scale
                             /\ loc'.mc.wins[away] = loc.mc.wins[away]
                             /\ loc'.mc.losses[home] = loc.mc.losses[home]
                 away_won == /\ loc'.mc.wins[away] = loc.mc.wins[away] + Scale
                             /\ loc'.mc.losses[home] = loc.mc.losses[home] + Scale
                             /\ loc'.mc.wins[home] = loc.mc.wins[home]
                             /\ loc'.mc.losses[away] = loc.mc.losses[away]
             IN  /\ loc'.mc.todo = Tail(loc.mc.todo)
                 /\ loc'.mc.draws = loc.mc.draws + 1
                 /\ home_won \/ away_won
                 /\ \E roll \in rng_random(loc.mc.random_seed, loc.mc.draws) :
                       home_won <=> roll < matchup.home_win_probability
                 /\ matchup.home_win_probability = Scale => home_won
                 /\ matchup.home_win_probability = 0 => away_won
                 /\ \A t \in DOMAIN loc.mc.wins \ {home, away} :
                       /\ loc'.mc.wins[t] = loc.mc.wins[t]
                       /\ loc'.mc.losses[t] = loc.mc.losses[t]]_vars

\* the second iteration starts: the first one has ended with two wins for
\* team 2, which starts again from the one win of the history, and the
\* matchups to come include one that the home team is sure to win and one
\* that it is sure to lose
C22_Witness ==
    /\ Iterating
    /\ loc.mc.done = 1
    /\ ResolvedSoFar = 0
    /\ loc.mc.aggregates[2].win_total = 2 * Scale
    /\ loc.mc.wins[2] = Scale
    /\ loc.mc.wins[1] = 0
    /\ \E i \in 1..Len(loc.mc.todo) : loc.mc.todo[i].home_win_probability = Scale
    /\ \E i \in 1..Len(loc.mc.todo) : loc.mc.todo[i].home_win_probability = 0

----------------------------------------------------------------------------
(* Lineup overrides and matchup overrides of one overlay *)

\* the overlay with the lineup of a team in a completed week replaced
WithLineup(overlay, week, team_id, entries) ==
    LET section == Get(overlay.completed_weeks, week,
                       [team_lineups |-> EmptyDict, matchup_overrides |-> EmptyDict])
        changed == [team_lineups |-> (team_id :> entries) @@ section.team_lineups,
                    matchup_overrides |-> section.matchup_overrides]
    IN  [metadata |-> overlay.metadata,
         completed_weeks |-> (week :> changed) @@ overlay.completed_weeks,
         projection_weeks |-> overlay.projection_weeks]

\* the overlay with the override of a matchup of a completed week replaced
WithScore(overlay, week, matchup_id, payload) ==
    LET section == Get(overlay.completed_weeks, week,
                       [team_lineups |-> EmptyDict, matchup_overrides |-> EmptyDict])
        changed == [team_lineups |-> section.team_lineups,
                    matchup_overrides |->
                       (matchup_id :> payload) @@ section.matchup_overrides]
    IN  [metadata |-> overlay.metadata,
         completed_weeks |-> (week :> changed) @@ overlay.completed_weeks,
         projection_weeks |-> overlay.projection_weeks]

\* the dataset build_dataset returns when it runs with a given overlay
DatasetUnder(overlay, d, a) ==
    run_to_finally([pc |-> "load", overlay |-> overlay],
                   IF DOMAIN overlay.completed_weeks # {}
                      \/ DOMAIN overlay.projection_weeks # {}
                   THEN overlay ELSE NoOverlay,
                   d, a).pending.dataset

\* another lineup for a team, and another score for a matchup
SwapLineup ==
    << [player_name |-> "Swap QB", score_total |-> 61, counts_for_score |-> TRUE],
       [player_name |-> "Swap K", score_total |-> 5, counts_for_score |-> FALSE] >>

SwapScore == [home_points |-> 77, away_points |-> 88, winner |-> "AWAY"]

\* what a dataset reports of a team's matchups of a week: the points and the
\* result, and the team's points in the standings
Reported(dataset, t, week) ==
    LET entries == SelectSeq(dataset.team_schedule[t], LAMBDA e : e.week = week)
        row == CHOOSE r \in {dataset.standings[i] : i \in 1..Len(dataset.standings)} :
                  r.team = t
    IN  [scores |-> [i \in 1..Len(entries) |->
                       [actual_points |-> Get(entries[i], "actual_points", 0 - 1),
                        result |-> Get(entries[i], "result", "")]],
         standings_points |-> row.projected_points]

\* the starters and bench lists a dataset reports for a week
Lineups(dataset, week) ==
    LET listed == SelectSeq(dataset.weeks, LAMBDA p : p.week = week)
        sides(ms) == [i \in 1..Len(ms) |->
                        [home |-> [starters |-> ms[i].home.starters,
                                   bench |-> ms[i].home.bench],
                         away |-> [starters |-> ms[i].away.starters,
                                   bench |-> ms[i].away.bench]]]
    IN  [i \in 1..Len(listed) |-> sides(listed[i].matchups)]

\* a build under the scenario "whatif" is about to return a dataset
WhatIfBuilt ==
    /\ loc.pc = "finally"
    /\ loc.pending.kind = "returned"
    /\ args.scenario_id = "whatif"

\* the history weeks of the build whose matchup has a result with the points
\* of both teams
WeeksWithPoints ==
    {w \in {loc.history_weeks[i] : i \in 1..Len(loc.history_weeks)} :
        /\ Has(loc.matchup_results, <<w, MatchupIdOf(w)>>)
        /\ Has(loc.matchup_results[<<w, MatchupIdOf(w)>>], "home_points")
        /\ Has(loc.matchup_results[<<w, MatchupIdOf(w)>>], "away_points")}

\* the change of the matchup's score alone leaves the lineups as they are,
\* and the schedule entries report the new points
ScoreLeavesLineups(w) ==
    LET changed == DatasetUnder(WithScore(loc.overlay, w, MatchupIdOf(w), SwapScore),
                                disk, args)
    IN  /\ Lineups(changed, w) = Lineups(loc.pending.dataset, w)
        /\ \A t \in Teams :
              \A i \in 1..Len(changed.team_schedule[t]) :
                 LET e == changed.team_schedule[t][i]
                 IN  e.week = w =>
                        e.actual_points = IF e.is_home THEN SwapScore.home_points
                                          ELSE SwapScore.away_points

----------------------------------------------------------------------------
(* _apply_live_score_overrides on one recorded matchup: every stored score, *)
(* winner flag and kind of live data                                        *)

\* the stored points of a side: below zero, zero, or a real score
StoredPoints == {0 - 3, 0, 110}

StoredWinners == {NoneStr, "UNDECIDED", "HOME", "away", "TIE"}

\* the live data of week 1: none; a scoreboard entry with both scores, or
\* with the home score only; roster totals of both teams, or of team 1 only
LiveFiles ==
    { [scoreboard |-> EmptyDict, roster_totals |-> EmptyDict],
      [scoreboard |->
          1 :> [entries |-> "101" :> [status |-> "in_progress",
                                      home_points |-> 70, away_points |-> 65],
                rows |-> <<>>],
       roster_totals |-> EmptyDict],
      [scoreboard |->
          1 :> [entries |-> "101" :> [status |-> "", home_points |-> 70],
                rows |-> <<>>],
       roster_totals |-> 1 :> ((1 :> 80) @@ (2 :> 75))],
      [scoreboard |-> EmptyDict,
       roster_totals |-> 1 :> ((1 :> 80) @@ (2 :> 75))],
      [scoreboard |-> EmptyDict,
       roster_totals |-> 1 :> (1 :> 80)] }

InitLive ==
    /\ disk \in { [teams |-> Teams,
                   schedule |-> Schedule,
                   projections |-> [w \in 1..MaxWeek |-> ProjectionRows(w)],
                   weekly_scores |-> 1 :> ScoresBoth,
                   matchup_json |->
                      [exists |-> TRUE,
                       schedule |-> <<1, "101">> :> Result(1, 2, h, a, winner)],
                   scoreboard |-> live.scoreboard,
                   roster_totals |-> live.roster_totals,
                   overlays |-> [whatif |-> MissingFile, baseline |-> MissingFile]] :
                  h \in StoredPoints, a \in StoredPoints, winner \in StoredWinners,
                  live \in LiveFiles }
    /\ active_overlay = NoOverlay
    /\ active_scenario_id = BASELINE_SCENARIO_ID
    /\ args = NoArgs
    /\ saved = NoSaved
    /\ loc = NoFrame
    /\ outcome = NotCalled

\* self._apply_live_score_overrides(season, results) on the recorded results
ApplyLive ==
    /\ outcome = NotCalled
    /\ outcome' = [kind |-> "returned",
                   results |-> apply_live_score_overrides(disk, disk.matchup_json.schedule)]
    /\ UNCHANGED <<disk, active_overlay, active_scenario_id, args, saved, loc>>

NextLive == ApplyLive

SpecLive == InitLive /\ [][NextLive]_vars

\* the stored result and the enriched one
Stored == disk.matchup_json.schedule[<<1, "101">>]

Enriched == outcome.results[<<1, "101">>]

Flagged == WinnerUpper(Stored.winner) \in WinnerFlags

HasLive == DOMAIN disk.scoreboard # {} \/ DOMAIN disk.roster_totals # {}

\* C24, as claimed: the enrichment changes a side's stored points only if
\* they are zero or the matchup has no winner flag; with a winner flag and
\* points above zero on both sides the points stay, whatever the live data.
C24_OverwritesOnlyZero ==
    outcome.kind = "returned" =>
        /\ Enriched.home_points # Stored.home_points =>
              Stored.home_points = 0 \/ ~Flagged
        /\ Enriched.away_points # Stored.away_points =>
              Stored.away_points = 0 \/ ~Flagged
        /\ (Flagged /\ Stored.home_points > 0 /\ Stored.away_points > 0) =>
              /\ Enriched.home_points = Stored.home_points
              /\ Enriched.away_points = Stored.away_points

\* C24, amended: the enrichment changes a side's stored points only if they
\* are zero or below or the matchup has no winner flag; with a winner flag
\* and points above zero on both sides the points stay, whatever the live
\* data.
C24_OverwritesOnlyNonPositive ==
    outcome.kind = "returned" =>
        /\ Enriched.home_points # Stored.home_points =>
              Stored.home_points <= 0 \/ ~Flagged
        /\ Enriched.away_points # Stored.away_points =>
              Stored.away_points <= 0 \/ ~Flagged
        /\ (Flagged /\ Stored.home_points > 0 /\ Stored.away_points > 0) =>
              /\ Enriched.home_points = Stored.home_points
              /\ Enriched.away_points = Stored.away_points

\* a matchup recorded 110 to 110 with a winner flag went through the
\* enrichment with a scoreboard entry of 70 to 65 and kept its points
C24_Witness ==
    /\ outcome.kind = "returned"
    /\ Flagged
    /\ Stored.home_points = 110
    /\ Stored.away_points = 110
    /\ Has(disk.scoreboard, 1)
    /\ disk.scoreboard[1].entries["101"].home_points = 70
    /\ Enriched.home_points = 110
    /\ Enriched.away_points = 110

----------------------------------------------------------------------------
(* build_dataset on a league of four teams with two matchups a week, where *)
(* some teams have no row in a week's table                                 *)

FourTeams == {1, 2, 3, 4}

\* two matchups a week: 1 against 2 and 3 against 4, but in week 2, where
\* 1 meets 3 and 2 meets 4
PairSchedule ==
    [i \in 1..(2 * MaxWeek) |->
       LET w == (i + 1) \div 2
           first == i % 2 = 1
       IN  [week |-> w,
            matchup_id |-> MatchupIdOf(i),
            home_team_id |-> IF first THEN 1 ELSE IF w = 2 THEN 2 ELSE 3,
            away_team_id |-> IF first THEN (IF w = 2 THEN 3 ELSE 2) ELSE 4]]

\* a week's table with one row for each team of `present`
PairRows(present, column, w) ==
    SelectSeq(<< Row(1, "Alpha QB", column, 20 + w, TRUE),
                 Row(2, "Beta QB", column, 18, TRUE),
                 Row(3, "Gamma QB", column, 25, TRUE),
                 Row(4, "Delta QB", column, 16, TRUE) >>,
              LAMBDA r : r.team_id \in present)

\* the teams with rows in a table: all, all but one, one matchup's, none
Presents == {FourTeams, {2, 3, 4}, {1, 2, 3}, {1, 2}, {}}

\* week 1 is completed, with a recorded final result for both of its
\* matchups or for the first only; the teams of `scored` have rows in its
\* scores, the teams of `projected` in the projections of week 2; the overlay
\* whatif, where there is one, replaces the week 1 lineups of the teams 1
\* and 2, the latter by no rows
PairDisks ==
    { [teams |-> FourTeams,
       schedule |-> PairSchedule,
       projections |->
          [w \in 1..MaxWeek |->
             PairRows(IF w = 2 THEN projected ELSE FourTeams, "projected_points", w)],
       weekly_scores |-> 1 :> PairRows(scored, "score_total", 1),
       matchup_json |->
          [exists |-> TRUE,
           schedule |->
              [k \in {<<1, MatchupIdOf(i)>> : i \in recorded} |->
                 IF k[2] = MatchupIdOf(1) THEN Result(1, 2, 110, 95, "HOME")
                 ELSE Result(3, 4, 88, 101, "AWAY")]],
       scoreboard |-> EmptyDict,
       roster_totals |-> EmptyDict,
       overlays |-> [whatif |-> wf, baseline |-> MissingFile]] :
      scored \in Presents, projected \in Presents, recorded \in {{1, 2}, {1}},
      wf \in {MissingFile,
              ObjectFile([completed_weeks |-> 1 :> [teams |-> OverlayTeam1Only]])} }

InitSkip ==
    /\ disk \in PairDisks
    /\ active_overlay = NoOverlay
    /\ active_scenario_id = BASELINE_SCENARIO_ID
    /\ args = NoArgs
    /\ saved = NoSaved
    /\ loc = NoFrame
    /\ outcome = NotCalled

NextSkip ==
    \/ \E s \in {NoneStr, "whatif"}, w \in {0, 1, MaxWeek}, sg \in Sigmas :
          BuildBegin(s, w, sg)
    \/ LoadInputs
    \/ HistoryWeek
    \/ ReconcileMatchup
    \/ ProjectionWeek
    \/ ProjectMatchup
    \/ Finally

SpecSkip == InitSkip /\ [][NextSkip]_vars

\* the matchup about to be handled has a team without a row in the week's
\* merged table
SkipsNow ==
    /\ loc.pc \in {"history_week", "projection_week"}
    /\ ~({Head(loc.matchup_todo).home_team_id, Head(loc.matchup_todo).away_team_id}
           \subseteq TeamIdsOf(loc.table))

\* the step handles a matchup and adds nothing for it
AddsNothing ==
    /\ loc'.team_schedule = loc.team_schedule
    /\ loc'.standings_tracker = loc.standings_tracker
    /\ loc'.actual_matchups_by_week = loc.actual_matchups_by_week
    /\ loc'.future_matchups_by_week = loc.future_matchups_by_week
    /\ loc'.matchup_rows = loc.matchup_rows

\* the loops go on: to the week's next matchup, or to the next week
GoesOn ==
    /\ outcome' = outcome
    /\ loc'.pc \in {"history_week", "history", "projection_week", "projection"}
    /\ loc'.matchup_todo = Tail(loc.matchup_todo)
    /\ loc'.week_todo = IF Tail(loc.matchup_todo) = <<>> THEN Tail(loc.week_todo)
                        ELSE loc.week_todo

\* the dataset of the call that is about to return
Built == loc.pc = "finally" /\ loc.pending.kind = "returned"

\* team t has a schedule entry for the matchup, actual or projected
HasEntry(dataset, t, week, matchup_id, is_actual) ==
    \E i \in 1..Len(dataset.team_schedule[t]) :
       /\ dataset.team_schedule[t][i].week = week
       /\ dataset.team_schedule[t][i].matchup_id = matchup_id
       /\ dataset.team_schedule[t][i].is_actual = is_actual

\* weeks[] has the matchup, actual or projected
InWeeks(dataset, week, matchup_id, is_actual) ==
    \E i \in 1..Len(dataset.weeks) :
       /\ dataset.weeks[i].week = week
       /\ \E j \in 1..Len(dataset.weeks[i].matchups) :
             /\ dataset.weeks[i].matchups[j].matchup_id = matchup_id
             /\ dataset.weeks[i].matchups[j].is_actual = is_actual

\* both teams of the matchup have rows in the table
BothIn(m, table) == {m.home_team_id, m.away_team_id} \subseteq TeamIdsOf(table)

InSeq(x, seq) == \E i \in 1..Len(seq) : seq[i] = x

\* every entry of A against B has its mirror entry of B against A
Mirrored(dataset) ==
    \A t \in DOMAIN dataset.team_schedule :
       \A i \in 1..Len(dataset.team_schedule[t]) :
          LET e == dataset.team_schedule[t][i]
          IN  \E j \in 1..Len(dataset.team_schedule[e.opponent_team_id]) :
                 LET f == dataset.team_schedule[e.opponent_team_id][j]
                 IN  /\ f.week = e.week
                     /\ f.matchup_id = e.matchup_id
                     /\ f.opponent_team_id = t
                     /\ f.is_home = ~e.is_home
                     /\ f.is_actual = e.is_actual

\* the entries of the returned dataset: a matchup has its two actual entries
\* exactly if its week is a history week, its result is recorded and both
\* teams have rows in the merged scores; its two projected entries exactly
\* if its week is projected and both teams have rows in the merged
\* projections; weeks[] has no matchup without entries
EntriesOfReported ==
    LET dataset == loc.pending.dataset
    IN  \A i \in 1..Len(disk.schedule) :
           LET m == disk.schedule[i]
               reconciled ==
                   /\ InSeq(m.week, loc.history_weeks)
                   /\ Has(loc.matchup_results, <<m.week, m.matchup_id>>)
                   /\ BothIn(m, load_week_scores(active_overlay, disk, m.week))
               projected ==
                   /\ InSeq(m.week, loc.weeks_to_process)
                   /\ BothIn(m, load_week_projection(active_overlay, disk, m.week))
           IN  /\ \A t \in {m.home_team_id, m.away_team_id} :
                     /\ HasEntry(dataset, t, m.week, m.matchup_id, TRUE) <=> reconciled
                     /\ HasEntry(dataset, t, m.week, m.matchup_id, FALSE) <=> projected
               /\ InWeeks(dataset, m.week, m.matchup_id, TRUE) => reconciled
               /\ InWeeks(dataset, m.week, m.matchup_id, FALSE) => projected

\* C25: a matchup with a team that has no row in the week's merged score or
\* projection table is skipped as a whole: the step adds no schedule entry,
\* no matchup of weeks[] and no standings value, raises nothing, and the
\* loops go on with the other matchups and weeks, which get their entries;
\* so every schedule entry of A against B has a mirror entry of B against A
\* with the same week and matchup_id.
C25_SkippedAsAWhole ==
    /\ [][SkipsNow => (AddsNothing /\ GoesOn)]_vars
    /\ [](Built => (Mirrored(loc.pending.dataset) /\ EntriesOfReported))

\* a build is about to return in which team 1 had no row in the scores of
\* week 1 and team 4 none in the projections of week 2: the matchups 1:2 of
\* week 1 and 2:4 of week 2 have no entry, the matchups 3:4 of week 1 and
\* 1:3 of week 2 have theirs, and week 3 has both of its matchups
C25_Witness ==
    /\ Built
    /\ 1 \notin TeamIdsOf(load_week_scores(active_overlay, disk, 1))
    /\ 4 \notin TeamIdsOf(load_week_projection(active_overlay, disk, 2))
    /\ ~HasEntry(loc.pending.dataset, 2, 1, MatchupIdOf(1), TRUE)
    /\ HasEntry(loc.pending.dataset, 3, 1, MatchupIdOf(2), TRUE)
    /\ ~HasEntry(loc.pending.dataset, 2, 2, MatchupIdOf(4), FALSE)
    /\ HasEntry(loc.pending.dataset, 3, 2, MatchupIdOf(3), FALSE)
    /\ HasEntry(loc.pending.dataset, 1, 3, MatchupIdOf(5), FALSE)
    /\ InWeeks(loc.pending.dataset, 3, MatchupIdOf(6), FALSE)

----------------------------------------------------------------------------
(* cli.py: the totals that `scenario set-score` leaves in whatif.json *)

\* the payload of completed week 1 in whatif.json, its entry of the week's
\* matchup, and a team's lineup entries
WeekOne(d) ==
    IF d.overlays["whatif"].kind # "object" THEN EmptyDict
    ELSE Get(Get(d.overlays["whatif"].raw, "completed_weeks", EmptyDict), 1, EmptyDict)

EntryOf(d) == Get(Get(WeekOne(d), "matchups", EmptyDict), MatchupIdOf(1), EmptyDict)

EntriesOf(d, t) == Get(Get(WeekOne(d), "teams", EmptyDict), t, <<>>)

\* the team's lineup total as the simulator reads the lineup: the scores of
\* the rows that count, the scenario-override row among them
LineupTotal(d, t) ==
    LET rows == normalized_entries(t, EntriesOf(d, t), "score_total")
    IN  SumSeq([i \in 1..Len(rows) |->
                  IF rows[i].counts_for_score THEN rows[i].score_total ELSE 0])

\* the matchup entry's points of a side are the lineup total of that side's
\* team
SideAgrees(d, side) ==
    /\ Has(EntryOf(d), side \o "_points")
    /\ Has(EntryOf(d), side \o "_team_id")
    /\ LineupTotal(d, EntryOf(d)[side \o "_team_id"]) = EntryOf(d)[side \o "_points"]
    /\ total_with_override(EntriesOf(d, EntryOf(d)[side \o "_team_id"]), "score_total")
          = EntryOf(d)[side \o "_points"]

Other(side) == IF side = "home" THEN "away" ELSE "home"

\* set-score has succeeded on whatif in this step
SetScoreRan ==
    /\ Ran
    /\ args'.command = "set-score"
    /\ args'.scenario_id = "whatif"
    /\ outcome'.kind = "returned"

\* a later command on the opposing team has succeeded on whatif in this
\* step: set-score with the other side's points only, or set-player-score
\* for a player of the other side's team
OpposingRan(side) ==
    /\ Ran
    /\ args'.scenario_id = "whatif"
    /\ outcome'.kind = "returned"
    /\ \/ /\ args'.command = "set-score"
          /\ args'[side \o "_points"] = NotGiven
          /\ args'[Other(side) \o "_points"] # NotGiven
       \/ /\ args'.command = "set-player-score"
          /\ Has(EntryOf(disk), Other(side) \o "_team_id")
          /\ args'.team_id = EntryOf(disk)[Other(side) \o "_team_id"]

\* C26: after a successful set-score with --home-points p (--away-points q)
\* the overlay's matchup entry has home_points = p (away_points = q) and the
\* team's overlay lineup total of the week, the scenario-override entry
\* counted, is the same value; a later set-score or set-player-score on the
\* opposing team keeps the side's points and the equality.
C26_SetScoreTotalsAgree ==
    [][\A side \in {"home", "away"} :
          /\ (SetScoreRan /\ args'[side \o "_points"] # NotGiven) =>
                /\ SideAgrees(disk', side)
                /\ EntryOf(disk')[side \o "_points"] = args'[side \o "_points"]
          /\ (OpposingRan(side) /\ SideAgrees(disk, side)) =>
                /\ SideAgrees(disk', side)
                /\ EntryOf(disk')[side \o "_points"] = EntryOf(disk)[side \o "_points"]
                /\ EntryOf(disk')[side \o "_team_id"] = EntryOf(disk)[side \o "_team_id"]
      ]_vars

\* set-score --home-points 120 was followed by set-player-score for a
\* player of team 2: the entry still has 120 home points, the lineup of team
\* 1 sums to 120 through its scenario-override entry, and the away side has
\* followed the player's new score
C26_Witness ==
    /\ loc.commands = 2
    /\ args.command = "set-player-score"
    /\ args.scenario_id = "whatif"
    /\ args.team_id = 2
    /\ outcome.kind = "returned"
    /\ SideAgrees(disk, "home")
    /\ EntryOf(disk).home_points = 120
    /\ \E i \in 1..Len(EntriesOf(disk, 1)) :
          Get(EntriesOf(disk, 1)[i], "scenario_override", FALSE)
    /\ SideAgrees(disk, "away")
    /\ \E i \in 1..Len(EntriesOf(disk, 2)) :
          /\ Get(EntriesOf(disk, 2)[i], "player_name", "") = args.player_name
          /\ EntriesOf(disk, 2)[i].score_total = 50

----------------------------------------------------------------------------
(* build_dataset: the projected record against the number of matchups *)

\* the team's counted matchups: its final history entries and its projected
\* entries
CountedMatchups(dataset, t) ==
    Len(SelectSeq(dataset.team_schedule[t],
                  LAMBDA e : ~e.is_actual \/ e.status = "final"))

\* the team's counted matchups that are projected as a toss-up
TossUps(dataset, t) ==
    Len(SelectSeq(dataset.team_schedule[t],
                  LAMBDA e : ~e.is_actual /\ e.win_probability = Half))

RecordSum(record) == record.wins + record.losses + record.ties

\* C27: for every team of the standings, projected wins + losses + ties is
\* the number of the team's counted matchups (final history matchups and
\* projected matchups): each counted matchup adds 1 in all to the three
\* fields of each of its teams.
C27_RecordSumsToMatchups ==
    outcome.kind = "returned" =>
        \A i \in 1..Len(outcome.dataset.standings) :
           RecordSum(outcome.dataset.standings[i].projected_record)
              = Scale * CountedMatchups(outcome.dataset,
                                        outcome.dataset.standings[i].team)

\* what the loops add: 1 for each counted matchup and 1 more for each
\* projected toss-up
C27_RecordCountsTossUpsTwice ==
    outcome.kind = "returned" =>
        \A i \in 1..Len(outcome.dataset.standings) :
           RecordSum(outcome.dataset.standings[i].projected_record)
              = Scale * (CountedMatchups(outcome.dataset,
                                         outcome.dataset.standings[i].team)
                         + TossUps(outcome.dataset,
                                   outcome.dataset.standings[i].team))

----------------------------------------------------------------------------
(* _run_monte_carlo: the average record against the matchups of weeks[] *)

\* the matchups of weeks[] that team t plays in and that satisfy keep
MatchupsInWeeks(dataset, t, keep(_)) ==
    SumSeq([i \in 1..Len(dataset.weeks) |->
              Len(SelectSeq(dataset.weeks[i].matchups,
                            LAMBDA m : t \in {m.home.team, m.away.team} /\ keep(m)))])

AnyMatchup(m) == TRUE

\* a matchup that is projected, or one of the history that is final with a
\* winner
WonOrProjected(m) ==
    ~m.is_actual \/ (m.status = "final" /\ m.result.home \in {"win", "loss"})

\* the averages are written in thousandths
AverageGames(entry) == entry.average_wins + entry.average_losses

Simulated == outcome.kind = "returned" /\ Has(outcome.dataset, "monte_carlo")

\* C28: every matchup of weeks[] is counted exactly once in each Monte Carlo
\* iteration, in the baseline wins and losses or as a simulated game, so a
\* team's average_wins + average_losses is the number of its matchups in
\* weeks[].
C28_AveragesCountEveryMatchup ==
    Simulated =>
        \A i \in 1..Len(outcome.dataset.monte_carlo.teams) :
           AverageGames(outcome.dataset.monte_carlo.teams[i])
              = 1000 * MatchupsInWeeks(outcome.dataset,
                                       outcome.dataset.monte_carlo.teams[i].team,
                                       AnyMatchup)

\* what the iterations count: the projected matchups and the final history
\* matchups that have a winner
C28_AveragesCountWonOrProjected ==
    Simulated =>
        \A i \in 1..Len(outcome.dataset.monte_carlo.teams) :
           AverageGames(outcome.dataset.monte_carlo.teams[i])
              = 1000 * MatchupsInWeeks(outcome.dataset,
                                       outcome.dataset.monte_carlo.teams[i].team,
                                       WonOrProjected)

----------------------------------------------------------------------------
(* build_dataset: the projected weeks of a call without start_week *)

\* a call without start_week has returned its dataset
DefaultStartBuilt ==
    /\ args # NoArgs
    /\ args.start_week = 0
    /\ outcome.kind = "returned"

ProjectedWeeks ==
    {outcome.dataset.sources.projections_weeks[i] :
        i \in 1..Len(outcome.dataset.sources.projections_weeks)}

\* C29: with start_week left out no completed week (a week with a
\* weekly-scores table) is processed as a projected week: every week of
\* sources.projections_weeks is strictly later than every completed week,
\* for every set of projection weeks and completed weeks for which the build
\* succeeds.
C29_ProjectedAfterCompleted ==
    DefaultStartBuilt =>
        \A w \in ProjectedWeeks, c \in CompletedWeeksOnDisk : w > c

\* the same, for the seasons that have a projection week later than the
\* latest completed week
C29_ProjectedAfterCompletedIfLater ==
    (DefaultStartBuilt /\ CompletedWeeksOnDisk # {} /\ LaterWeeks # {}) =>
        \A w \in ProjectedWeeks, c \in CompletedWeeksOnDisk : w > c

----------------------------------------------------------------------------
(* cli.py and simulator.py: the winner that set-score stores against the *)
(* points that build_dataset resolves under the scenario                  *)

\* the last command was a set-score on whatif, and it succeeded
SetScoreDone ==
    /\ args # NoArgs
    /\ Has(args, "command")
    /\ args.command = "set-score"
    /\ args.scenario_id = "whatif"
    /\ outcome.kind = "returned"

\* build_dataset(season, scenario_id="whatif") on the files as they are
ScenarioBuild == FreshBuild(disk, Arguments("whatif", 0, DEFAULT_SIGMA))

\* the matchups of weeks[] that are the reconciled matchup of week 1
ResolvedMatchups ==
    IF ScenarioBuild.kind # "returned" THEN {}
    ELSE LET weeks == ScenarioBuild.dataset.weeks
         IN  {m \in UNION {{weeks[i].matchups[j] : j \in 1..Len(weeks[i].matchups)} :
                             i \in 1..Len(weeks)} :
                m.week = 1 /\ m.matchup_id = MatchupIdOf(1) /\ m.is_actual}

\* the winner of the overlay's entry, where it has one, is the one that the
\* resolved points give
StoredWinnerAgrees ==
    \A m \in ResolvedMatchups :
       Has(EntryOf(disk), "winner") =>
          Upper(EntryOf(disk).winner) = winner_of(m.final_score.home, m.final_score.away)

\* C30: after a successful set-score the winner stored in the overlay's
\* matchup entry agrees with the home and away points that build_dataset
\* resolves for the matchup under the scenario (HOME iff home > away, AWAY
\* iff home < away, TIE iff equal), also when only one of --home-points and
\* --away-points is given and the other side's points come from the
\* recorded result.
C30_StoredWinnerMatchesResolvedPoints ==
    SetScoreDone => StoredWinnerAgrees

\* the same, for a set-score that is given both --home-points and
\* --away-points
C30_StoredWinnerMatchesGivenPoints ==
    (SetScoreDone /\ args.home_points # NotGiven /\ args.away_points # NotGiven)
        => StoredWinnerAgrees

\* a set-score with both points has run and the build under the scenario
\* has the matchup with these points
C30_BothGivenBuilt ==
    /\ SetScoreDone
    /\ args.home_points = 100
    /\ args.away_points = 100
    /\ \E m \in ResolvedMatchups : m.final_score = [home |-> 100, away |-> 100]
    /\ EntryOf(disk).winner = "TIE"

====
